---- MODULE Spec2Model ----
(***************************************************************************)
(* Model of claudevil's vector store (src/src/store.rs), of the indexer    *)
(* that writes into it (src/src/indexer.rs) and of the tasks that share    *)
(* it (src/src/main.rs, src/src/server.rs).                                *)
(*                                                                         *)
(* Every store call is split at its await points and at each step of its   *)
(* body: taking meta, taking index, reserve, one loop iteration, saving    *)
(* the index file, writing metadata.json.  The two tokio RwLocks are       *)
(* modelled as a writer slot and a set of readers each.                    *)
(***************************************************************************)
EXTENDS Integers, Sequences, FiniteSets, TLC

\* ---- bounds of the model -------------------------------------------------
MaxKey == 3         \* next_key is capped here (u64 in the code)
MaxFails == 1       \* failing library or file calls in one behaviour
MaxRows == 2        \* longest batch a direct caller passes to insert
MaxChunks == 2      \* most chunks the chunker emits for one file
BATCH_SIZE == 2     \* indexer.rs:14 has 64; scaled so that a flush in the walk happens
MaxDepth == 3       \* most components in the path a read_file request names
MaxLimit == 2       \* largest limit a query call passes
EMBEDDING_DIM == 3  \* embed.rs:12 has 384, the hidden size of the model; scaled
MAX_SEQ_LEN == 3    \* embed.rs:15 has 512; scaled so that a text is truncated
MaxLines == 3       \* most lines of a source text given to the chunker

\* The tasks that share one VectorStore (clones share the state): two of
\* them, the least that makes calls overlap.
Tasks == {"t1", "t2"}
NoTask == "none"
Paths == {"a.go", "b.go"}
\* The paths in ascending order (Ord of String), the order of a BTreeSet.
PathOrder == <<"a.go", "b.go", "c.rs">>
AllPaths == {PathOrder[i] : i \in 1..Len(PathOrder)}
Keys == 0..(MaxKey - 1)

\* Option<String> of a symbol name: a string is the sequence of its characters.
None == [some |-> FALSE, val |-> <<>>]
Some(s) == [some |-> TRUE, val |-> s]
\* The absent language_filter / kind_filter, and the symbol_kind None.
NoLang == "none"
NoKind == "none"

\* ChunkRow / ChunkMeta restricted to the fields the store's calls look at.
Row(p, i, lang, name, kind) ==
    [file_path |-> p, chunk_id |-> i, language |-> lang, symbol_name |-> name, symbol_kind |-> kind]
\* A row that differs from the other rows by its file and position only.
ChunkRow(p, i) == Row(p, i, "go", None, NoKind)

RECURSIVE SeqsUpTo(_, _)
SeqsUpTo(S, n) ==
    IF n = 0 THEN {<<>>}
    ELSE LET shorter == SeqsUpTo(S, n - 1)
         IN shorter \cup {Append(s, x) : s \in {q \in shorter : Len(q) = n - 1}, x \in S}

\* The batches a direct caller may pass to insert: rows of any files.
CallerRows == {ChunkRow(p, 0) : p \in Paths}
Batches == SeqsUpTo(CallerRows, MaxRows)

\* The arguments of a query call.  search: query_vec, represented by the
\* order in which it ranks the keys, nearest first; limit; language_filter.
\* find_by_symbol: pattern, kind_filter, limit.  list_files: language_filter.
KeyOrder == [i \in 1..MaxKey |-> i - 1]
DefaultQuery == [rank |-> KeyOrder, limit |-> MaxKey, lang |-> NoLang,
                 pattern |-> <<>>, kind |-> NoKind]

VARIABLES
    index,        \* keys held by the usearch index (in memory)
    meta,         \* Metadata {next_key, chunks} (in memory)
    disk_index,   \* index.usearch: [exists, keys]
    disk_meta,    \* metadata.json: [exists, next_key, chunks]
    index_lock,   \* RwLock around the index: [writer, readers]
    meta_lock,    \* RwLock around the metadata: [writer, readers]
    task,         \* per task: the store call it is in and that call's locals
    run,          \* per task: the index_directory run it is in, if any
    fs,           \* file -> number of chunks its content yields
    hist          \* history of the store, read only by the properties

vars == <<index, meta, disk_index, disk_meta, index_lock, meta_lock, task, run, fs, hist>>

EmptyChunks == [k \in {} |-> ChunkRow("a.go", 0)]
NoIndexFile == [exists |-> FALSE, keys |-> {}]
NoMetaFile == [exists |-> FALSE, next_key |-> 0, chunks |-> EmptyChunks]
Unlocked == [writer |-> NoTask, readers |-> {}]

IdleTask == [pc |-> "idle", op |-> "none", rows |-> <<>>, n |-> 0, path |-> "", rm |-> {},
             res |-> "none", q |-> DefaultQuery, hits |-> <<>>, out |-> <<>>, count |-> 0,
             files |-> <<>>, wrote |-> {}, req |-> [abs |-> FALSE, comps |-> <<>>],
             resp |-> [kind |-> "none", content |-> ""], tool |-> "none",
             view |-> [index |-> {}, chunks |-> EmptyChunks],
             entry |-> [index |-> {}, meta |-> [next_key |-> 0, chunks |-> EmptyChunks],
                        disk_index |-> NoIndexFile, disk_meta |-> NoMetaFile]]
NoRun == [pc |-> "off", todo |-> <<>>, cur |-> "", content |-> 0, pending |-> <<>>,
          final |-> FALSE, batch |-> <<>>, deleted |-> {}, res |-> "none",
          failed |-> {}, by |-> "main",
          prev |-> [valid |-> FALSE, res |-> "none", files |-> <<>>, count |-> 0,
                    next_key |-> 0]]

Init ==
    /\ index = {}
    /\ meta = [next_key |-> 0, chunks |-> EmptyChunks]
    /\ disk_index = NoIndexFile
    /\ disk_meta = NoMetaFile
    /\ index_lock = Unlocked
    /\ meta_lock = Unlocked
    /\ task = [t \in Tasks |-> IdleTask]
    /\ run = [t \in Tasks |-> NoRun]
    /\ fs = [p \in Paths |-> MaxChunks]
    /\ hist = [assigned |-> {}, reused |-> FALSE, all_ok |-> TRUE, fails |-> 0,
               idx_loaded |-> FALSE, meta_loaded |-> FALSE, balance |-> 0]

\* ---- helpers ---------------------------------------------------------------
\* Faulty variant of KeysOfFile: the scan of delete_file finds no row of the file.
KeysOfFile_none(chunks, p) == {}

\* Faulty variant of KeysOfFile: the scan of delete_file compares the file names
\* (the last component of the paths), not the whole paths.
KeysOfFile_byFileName(chunks, p) ==
    {k \in DOMAIN chunks : chunks[k].file_path[Len(chunks[k].file_path)] = p[Len(p)]}

KeysOfFile(chunks, p) == {k \in DOMAIN chunks : chunks[k].file_path = p}
Without(chunks, k) == [j \in (DOMAIN chunks) \ {k} |-> chunks[j]]
With(chunks, k, row) == [j \in (DOMAIN chunks) \cup {k} |-> IF j = k THEN row ELSE chunks[j]]

\* Dropping a task's lock guards (the guards go out of scope when the call returns).
Dropped(lock, t) ==
    [writer |-> IF lock.writer = t THEN NoTask ELSE lock.writer,
     readers |-> lock.readers \ {t}]
ReleaseLocks(t) ==
    /\ index_lock' = Dropped(index_lock, t)
    /\ meta_lock' = Dropped(meta_lock, t)

\* `?` on an Err: the call returns the error, dropping its guards.
ReturnErr(t) ==
    /\ task' = [task EXCEPT ![t].pc = "ret", ![t].res = "err"]
    /\ ReleaseLocks(t)

\* The calls that can fail do so at most MaxFails times in a behaviour.
Outcomes == IF hist.fails < MaxFails THEN BOOLEAN ELSE {FALSE}
Failed(fail) == [hist EXCEPT !.all_ok = FALSE, !.fails = IF fail THEN @ + 1 ELSE @]

\* Faulty variant of CanRead: a read guard handed out while a writer holds the lock.
CanRead_ignoringWriter(lock) == TRUE

\* tokio RwLock: write() is granted when nobody holds the lock,
\* read() when no writer holds it.
CanWrite(lock) == lock.writer = NoTask /\ lock.readers = {}
CanRead(lock) == lock.writer = NoTask

\* usearch Index::add: fails on an error of the library (fail) or on a key the
\* index already holds (multi = false).
IndexAdd(idx, key, fail) ==
    IF fail \/ key \in idx THEN [ok |-> FALSE, index |-> idx]
    ELSE [ok |-> TRUE, index |-> idx \cup {key}]

\* ---- VectorStore::insert -------------------------------------------------
CallInsert(t, rs) ==
    task' = [task EXCEPT ![t] =
                IF rs = <<>>
                THEN [IdleTask EXCEPT !.pc = "ret", !.op = "insert", !.res = "ok"]
                ELSE [IdleTask EXCEPT !.pc = "ins_meta", !.op = "insert", !.rows = rs,
                                      !.n = Len(rs)]]

\* VectorStore::delete_file entry.
CallDelete(t, p) ==
    task' = [task EXCEPT ![t] = [IdleTask EXCEPT !.pc = "del_meta", !.op = "delete", !.path = p]]

\* self.meta.write().await, first lock of insert and delete_file.
AcquireMetaWrite(t) ==
    /\ task[t].pc \in {"ins_meta", "del_meta"}
    /\ CanWrite(meta_lock)
    /\ meta_lock' = [meta_lock EXCEPT !.writer = t]
    /\ task' = [task EXCEPT ![t].pc = IF task[t].pc = "ins_meta" THEN "ins_index" ELSE "del_index"]
    /\ UNCHANGED <<index, meta, disk_index, disk_meta, index_lock, run, fs, hist>>

\* self.index.write().await, second lock of insert and delete_file.
AcquireIndexWrite(t) ==
    /\ task[t].pc \in {"ins_index", "del_index"}
    /\ CanWrite(index_lock)
    /\ index_lock' = [index_lock EXCEPT !.writer = t]
    /\ task' = [task EXCEPT ![t].pc = IF task[t].pc = "ins_index" THEN "ins_reserve" ELSE "del_scan",
                            ![t].entry = [index |-> index, meta |-> meta,
                                          disk_index |-> disk_index, disk_meta |-> disk_meta]]
    /\ UNCHANGED <<index, meta, disk_index, disk_meta, meta_lock, run, fs, hist>>

\* index.reserve(size + rows.len())
InsReserve(t, fail) ==
    /\ task[t].pc = "ins_reserve"
    /\ IF fail
       THEN /\ ReturnErr(t)
            /\ hist' = Failed(fail)
       ELSE /\ task' = [task EXCEPT ![t].pc = "ins_add"]
            /\ UNCHANGED <<index_lock, meta_lock, hist>>
    /\ UNCHANGED <<index, meta, disk_index, disk_meta, run, fs>>

\* One iteration of `for row in rows`: take next_key, add to the index, then
\* insert into meta.chunks.
InsAdd(t, fail) ==
    /\ task[t].pc = "ins_add"
    /\ meta.next_key < MaxKey
    /\ LET key == meta.next_key
           added == IndexAdd(index, key, fail)
           rest == Tail(task[t].rows)
       IN IF added.ok
          THEN /\ index' = added.index
               /\ meta' = [next_key |-> key + 1, chunks |-> With(meta.chunks, key, Head(task[t].rows))]
               /\ task' = [task EXCEPT ![t].rows = rest,
                                       ![t].pc = IF rest = <<>> THEN "persist_index" ELSE "ins_add"]
               /\ hist' = [hist EXCEPT !.assigned = @ \cup {key},
                                       !.reused = @ \/ key \in hist.assigned]
               /\ UNCHANGED <<index_lock, meta_lock>>
          ELSE /\ index' = index
               /\ meta' = [meta EXCEPT !.next_key = key + 1]
               /\ ReturnErr(t)
               /\ hist' = Failed(fail)
    /\ UNCHANGED <<disk_index, disk_meta, run, fs>>

\* Faulty variant of PersistIndex: persist_locked goes on to metadata.json
\* without having saved the index file.
PersistIndex_withoutSave(t, fail) ==
    /\ task[t].pc = "persist_index"
    /\ ~fail
    /\ task' = [task EXCEPT ![t].pc = "persist_meta", ![t].wrote = @ \cup {"index"}]
    /\ UNCHANGED <<index, meta, disk_index, disk_meta, index_lock, meta_lock, run, fs, hist>>

\* ---- VectorStore::persist_locked ------------------------------------------
\* index.save(index_path)
PersistIndex(t, fail) ==
    /\ task[t].pc = "persist_index"
    /\ IF fail
       THEN /\ ReturnErr(t)
            /\ hist' = Failed(fail)
            /\ UNCHANGED disk_index
       ELSE /\ disk_index' = [exists |-> TRUE, keys |-> index]
            /\ task' = [task EXCEPT ![t].pc = "persist_meta", ![t].wrote = @ \cup {"index"}]
            /\ UNCHANGED <<index_lock, meta_lock, hist>>
    /\ UNCHANGED <<index, meta, disk_meta, run, fs>>

\* Faulty variant of PersistMeta: the call returns Ok without having written
\* metadata.json.
PersistMeta_notWritten(t, fail) ==
    /\ task[t].pc = "persist_meta"
    /\ ~fail
    /\ task' = [task EXCEPT ![t].pc = "ret", ![t].res = "ok", ![t].wrote = @ \cup {"meta"}]
    /\ ReleaseLocks(t)
    /\ hist' = [hist EXCEPT !.balance = @ + task[t].n]
    /\ UNCHANGED <<index, meta, disk_index, disk_meta, run, fs>>

\* serde_json::to_string(meta) and tokio::fs::write(meta_path, json); then the
\* call returns Ok and its guards are dropped.
PersistMeta(t, fail) ==
    /\ task[t].pc = "persist_meta"
    /\ IF fail
       THEN /\ ReturnErr(t)
            /\ hist' = Failed(fail)
            /\ UNCHANGED disk_meta
       ELSE /\ disk_meta' = [exists |-> TRUE, next_key |-> meta.next_key, chunks |-> meta.chunks]
            /\ task' = [task EXCEPT ![t].pc = "ret", ![t].res = "ok", ![t].wrote = @ \cup {"meta"}]
            /\ ReleaseLocks(t)
            /\ hist' = [hist EXCEPT !.balance = @ + task[t].n]
    /\ UNCHANGED <<index, meta, disk_index, run, fs>>

\* Faulty variant of DelScan: keys_to_remove collected without the file_path
\* filter.
DelScan_unfiltered(t) ==
    /\ task[t].pc = "del_scan"
    /\ LET keys == DOMAIN meta.chunks
       IN IF keys = {}
          THEN /\ task' = [task EXCEPT ![t].pc = "ret", ![t].res = "ok"]
               /\ ReleaseLocks(t)
          ELSE /\ task' = [task EXCEPT ![t].pc = "del_remove", ![t].rm = keys]
               /\ UNCHANGED <<index_lock, meta_lock>>
    /\ UNCHANGED <<index, meta, disk_index, disk_meta, run, fs, hist>>

\* ---- VectorStore::delete_file ----------------------------------------------
\* keys_to_remove and the early return when it is empty.
DelScan(t) ==
    /\ task[t].pc = "del_scan"
    /\ LET keys == KeysOfFile(meta.chunks, task[t].path)
       IN IF keys = {}
          THEN /\ task' = [task EXCEPT ![t].pc = "ret", ![t].res = "ok"]
               /\ ReleaseLocks(t)
          ELSE /\ task' = [task EXCEPT ![t].pc = "del_remove", ![t].rm = keys]
               /\ UNCHANGED <<index_lock, meta_lock>>
    /\ UNCHANGED <<index, meta, disk_index, disk_meta, run, fs, hist>>

\* One iteration of `for &key in &keys_to_remove` (the order is that of the
\* HashMap iteration, so any).
DelRemove(t, k, fail) ==
    /\ task[t].pc = "del_remove"
    /\ k \in task[t].rm
    /\ IF fail
       THEN /\ ReturnErr(t)
            /\ hist' = Failed(fail)
            /\ UNCHANGED <<index, meta>>
       ELSE /\ index' = index \ {k}
            /\ meta' = [meta EXCEPT !.chunks = Without(meta.chunks, k)]
            /\ task' = [task EXCEPT ![t].rm = @ \ {k},
                                    ![t].pc = IF task[t].rm = {k} THEN "persist_index" ELSE "del_remove"]
            /\ hist' = [hist EXCEPT !.balance = @ - 1]
            /\ UNCHANGED <<index_lock, meta_lock>>
    /\ UNCHANGED <<disk_index, disk_meta, run, fs>>

\* ---- VectorStore::search ---------------------------------------------------
CallSearch(t, q) ==
    task' = [task EXCEPT ![t] = [IdleTask EXCEPT !.pc = "srch_index", !.op = "search", !.q = q]]

\* SearchResult, with the key it was built from (the code's struct does not
\* carry the key; the properties use it to name the row).
SearchResult(k, row, dist) ==
    [key |-> k, file_path |-> row.file_path, symbol_name |-> row.symbol_name,
     symbol_kind |-> row.symbol_kind, distance |-> dist]

Prefix(s, n) == SubSeq(s, 1, IF n < Len(s) THEN n ELSE Len(s))
Position(x, s) == CHOOSE i \in 1..Len(s) : s[i] = x

\* usearch Index::search(query, limit): the limit nearest keys of the index.
IndexSearch(idx, q) == Prefix(SelectSeq(q.rank, LAMBDA k : k \in idx), q.limit)
\* usearch Index::filtered_search(query, limit, predicate) with the closure of
\* store.rs:183: the limit nearest keys whose row has the language.
FilteredSearch(idx, chunks, q) ==
    Prefix(SelectSeq(q.rank, LAMBDA k : /\ k \in idx
                                        /\ k \in DOMAIN chunks
                                        /\ chunks[k].language = q.lang),
           q.limit)

\* self.index.read().await, first lock of search.
AcquireIndexRead(t) ==
    /\ task[t].pc = "srch_index"
    /\ CanRead(index_lock)
    /\ index_lock' = [index_lock EXCEPT !.readers = @ \cup {t}]
    /\ task' = [task EXCEPT ![t].pc = "srch_meta"]
    /\ UNCHANGED <<index, meta, disk_index, disk_meta, meta_lock, run, fs, hist>>

\* Where a call goes on once it holds the read guard of meta.
AfterMetaRead(pc) ==
    CASE pc = "srch_meta" -> "srch_find"
      [] pc = "cnt_meta" -> "cnt_read"
      [] pc = "find_meta" -> "find_read"
      [] pc = "list_meta" -> "list_read"

\* self.meta.read().await: second lock of search, only lock of chunk_count,
\* find_by_symbol and list_files.
AcquireMetaRead(t) ==
    /\ task[t].pc \in {"srch_meta", "cnt_meta", "find_meta", "list_meta"}
    /\ CanRead(meta_lock)
    /\ meta_lock' = [meta_lock EXCEPT !.readers = @ \cup {t}]
    /\ task' = [task EXCEPT ![t].pc = AfterMetaRead(task[t].pc),
                            ![t].view = [index |-> index, chunks |-> meta.chunks]]
    /\ UNCHANGED <<index, meta, disk_index, disk_meta, index_lock, run, fs, hist>>

\* The early return on an empty map, else index.search: the keys found.
SearchFind(t) ==
    /\ task[t].pc = "srch_find"
    /\ IF DOMAIN meta.chunks = {}
       THEN /\ task' = [task EXCEPT ![t].pc = "ret", ![t].res = "ok"]
            /\ ReleaseLocks(t)
       ELSE /\ task' = [task EXCEPT ![t].pc = "srch_map",
                                    ![t].hits = IF task[t].q.lang = NoLang
                                                THEN IndexSearch(index, task[t].q)
                                                ELSE FilteredSearch(index, meta.chunks, task[t].q)]
            /\ UNCHANGED <<index_lock, meta_lock>>
    /\ UNCHANGED <<index, meta, disk_index, disk_meta, run, fs, hist>>

\* Faulty variant of SearchMapped: a key found without metadata yields a
\* result all the same.
SearchMapped_unchecked(hits, q, chunks) ==
    [i \in 1..Len(hits) |->
        SearchResult(hits[i],
                     IF hits[i] \in DOMAIN chunks THEN chunks[hits[i]] ELSE ChunkRow("a.go", 0),
                     Position(hits[i], q.rank))]

\* filter_map over the keys found: the results of the keys meta.chunks holds,
\* in the order found; the distance is the library's, here the key's rank.
SearchMapped(hits, q, chunks) ==
    LET kept == SelectSeq(hits, LAMBDA k : k \in DOMAIN chunks)
    IN [i \in 1..Len(kept) |-> SearchResult(kept[i], chunks[kept[i]], Position(kept[i], q.rank))]

SearchMap(t) ==
    /\ task[t].pc = "srch_map"
    /\ task' = [task EXCEPT ![t].pc = "ret", ![t].res = "ok",
                            ![t].out = SearchMapped(task[t].hits, task[t].q, meta.chunks)]
    /\ ReleaseLocks(t)
    /\ UNCHANGED <<index, meta, disk_index, disk_meta, run, fs, hist>>

\* ---- VectorStore::chunk_count ----------------------------------------------
CallCount(t) ==
    task' = [task EXCEPT ![t] = [IdleTask EXCEPT !.pc = "cnt_meta", !.op = "count"]]

CountRead(t) ==
    /\ task[t].pc = "cnt_read"
    /\ task' = [task EXCEPT ![t].pc = "ret", ![t].res = "ok",
                            ![t].count = Cardinality(DOMAIN meta.chunks)]
    /\ ReleaseLocks(t)
    /\ UNCHANGED <<index, meta, disk_index, disk_meta, run, fs, hist>>

\* ---- VectorStore::find_by_symbol --------------------------------------------
\* str::to_lowercase on the letters the model's names are written with.
LowerChar(c) == CASE c = "F" -> "f" [] c = "O" -> "o" [] OTHER -> c

\* Faulty variant of ToLowercase: the string is compared as written.
ToLowercase_asWritten(s) == s

ToLowercase(s) == [i \in 1..Len(s) |-> LowerChar(s[i])]

\* str::contains: the needle occurs at some offset of the haystack.
Contains(hay, needle) ==
    \E i \in 0..(Len(hay) - Len(needle)) : SubSeq(hay, i + 1, i + Len(needle)) = needle

\* The two filters of find_by_symbol on one ChunkMeta.
SymbolMatches(c, q) ==
    /\ c.symbol_name.some /\ Contains(ToLowercase(c.symbol_name.val), ToLowercase(q.pattern))
    /\ q.kind = NoKind \/ c.symbol_kind = q.kind

CallFind(t, q) ==
    task' = [task EXCEPT ![t] = [IdleTask EXCEPT !.pc = "find_meta", !.op = "find", !.q = q]]

\* The sequences of n different elements of S.
RECURSIVE Arrangements(_, _)
Arrangements(S, n) ==
    IF n = 0 \/ S = {} THEN {<<>>}
    ELSE UNION {{<<x>> \o rest : rest \in Arrangements(S \ {x}, n - 1)} : x \in S}

\* values().filter(..).filter(..).take(limit).map(..).collect(): the first
\* limit matching rows in the iteration order of the HashMap, which is any.
FindRead(t) ==
    /\ task[t].pc = "find_read"
    /\ LET q == task[t].q
           matching == {k \in DOMAIN meta.chunks : SymbolMatches(meta.chunks[k], q)}
       IN \E taken \in Arrangements(matching, q.limit) :
             task' = [task EXCEPT ![t].pc = "ret", ![t].res = "ok",
                                  ![t].out = [i \in 1..Len(taken) |->
                                                 SearchResult(taken[i], meta.chunks[taken[i]], 0)]]
    /\ ReleaseLocks(t)
    /\ UNCHANGED <<index, meta, disk_index, disk_meta, run, fs, hist>>

\* ---- VectorStore::list_files ----------------------------------------------
\* Faulty variant of ListedPaths: the language filter is not applied.
ListedPaths_anyLanguage(chunks, language) == {chunks[k].file_path : k \in DOMAIN chunks}

\* The BTreeSet of the file_path of every row that passes the language
\* filter; ListFilesOf collects it in ascending order.
ListedPaths(chunks, language) ==
    {chunks[k].file_path : k \in {j \in DOMAIN chunks :
                                      language = NoLang \/ chunks[j].language = language}}
ListFilesOf(chunks, language) ==
    SelectSeq(PathOrder, LAMBDA p : p \in ListedPaths(chunks, language))

CallList(t, q) ==
    task' = [task EXCEPT ![t] = [IdleTask EXCEPT !.pc = "list_meta", !.op = "list", !.q = q]]

ListRead(t) ==
    /\ task[t].pc = "list_read"
    /\ task' = [task EXCEPT ![t].pc = "ret", ![t].res = "ok",
                            ![t].files = ListFilesOf(meta.chunks, task[t].q.lang)]
    /\ ReleaseLocks(t)
    /\ UNCHANGED <<index, meta, disk_index, disk_meta, run, fs, hist>>

\* ---- callers outside the indexer (tool handlers, tests) --------------------
Free(t) == task[t].pc = "idle" /\ run[t].pc = "off"

Insert(t, rs) ==
    /\ Free(t)
    /\ meta.next_key + Len(rs) <= MaxKey
    /\ CallInsert(t, rs)
    /\ UNCHANGED <<index, meta, disk_index, disk_meta, index_lock, meta_lock, run, fs, hist>>

DeleteFile(t, p) ==
    /\ Free(t)
    /\ CallDelete(t, p)
    /\ UNCHANGED <<index, meta, disk_index, disk_meta, index_lock, meta_lock, run, fs, hist>>

Search(t) ==
    /\ Free(t)
    /\ CallSearch(t, DefaultQuery)
    /\ UNCHANGED <<index, meta, disk_index, disk_meta, index_lock, meta_lock, run, fs, hist>>

ChunkCount(t) ==
    /\ Free(t)
    /\ CallCount(t)
    /\ UNCHANGED <<index, meta, disk_index, disk_meta, index_lock, meta_lock, run, fs, hist>>

\* The caller takes the call's result.
Return(t) ==
    /\ task[t].pc = "ret"
    /\ run[t].pc = "off"
    /\ task[t].tool = "none"
    /\ task' = [task EXCEPT ![t] = IdleTask]
    /\ UNCHANGED <<index, meta, disk_index, disk_meta, index_lock, meta_lock, run, fs, hist>>

\* ---- VectorStore::new on the directory of a closed store -------------------
LoadIndex(file) == IF file.exists THEN file.keys ELSE {}
LoadMeta(file) ==
    IF file.exists THEN [next_key |-> file.next_key, chunks |-> file.chunks]
    ELSE [next_key |-> 0, chunks |-> EmptyChunks]

Quiet == \A t \in Tasks : task[t].pc = "idle" /\ run[t].pc \in {"off", "done"}

New ==
    /\ Quiet
    /\ index' = LoadIndex(disk_index)
    /\ meta' = LoadMeta(disk_meta)
    /\ run' = [t \in Tasks |-> NoRun]
    /\ hist' = [hist EXCEPT !.idx_loaded = disk_index.exists, !.meta_loaded = disk_meta.exists]
    /\ UNCHANGED <<disk_index, disk_meta, index_lock, meta_lock, task, fs>>

\* ---- the store used by one caller, with failing library and file calls -----
Client == "t1"

WriteStep(t, F) ==
    \/ AcquireMetaWrite(t)
    \/ AcquireIndexWrite(t)
    \/ \E fail \in F : InsReserve(t, fail)
    \/ \E fail \in F : InsAdd(t, fail)
    \/ \E fail \in F : PersistIndex(t, fail)
    \/ \E fail \in F : PersistMeta(t, fail)
    \/ DelScan(t)
    \/ \E k \in Keys, fail \in F : DelRemove(t, k, fail)

SearchStep(t) ==
    \/ AcquireIndexRead(t)
    \/ SearchFind(t)
    \/ SearchMap(t)

CountStep(t) ==
    \/ AcquireMetaRead(t)
    \/ CountRead(t)

StoreStep(t, F) ==
    \/ WriteStep(t, F)
    \/ SearchStep(t)
    \/ CountStep(t)

Next ==
    \/ \E rs \in Batches : Insert(Client, rs)
    \/ \E p \in Paths : DeleteFile(Client, p)
    \/ Search(Client)
    \/ ChunkCount(Client)
    \/ Return(Client)
    \/ StoreStep(Client, Outcomes)
    \/ New

Spec == Init /\ [][Next]_vars

\* ---- Indexer::index_directory ----------------------------------------------
RECURSIVE Orders(_)
Orders(S) ==
    IF S = {} THEN {<<>>}
    ELSE UNION {{<<p>> \o rest : rest \in Orders(S \ {p})} : p \in S}

\* The chunks of a file with n chunks, as pending rows: chunk_id is the position.
FileChunks(p, n) == [i \in 1..n |-> ChunkRow(p, i - 1)]

\* tokio::spawn of index_directory(root), by main at startup or by the reindex
\* tool: WalkDir yields the supported files in the order of the directory.
IndexDirectory(t) ==
    /\ task[t].pc = "idle"
    /\ run[t].pc = "off"
    /\ \E order \in Orders(Paths) :
          run' = [run EXCEPT ![t] = [NoRun EXCEPT !.pc = "walk", !.todo = order]]
    /\ UNCHANGED <<index, meta, disk_index, disk_meta, index_lock, meta_lock, task, fs, hist>>

\* Faulty variant of IxNextFile: collect_file_chunks returns the file's chunks
\* without having called store.delete_file.
IxNextFile_withoutDelete(t, fail) ==
    /\ run[t].pc = "walk"
    /\ run[t].todo # <<>>
    /\ ~fail
    /\ LET p == Head(run[t].todo)
           rows == run[t].pending \o FileChunks(p, fs[p])
       IN run' = [run EXCEPT ![t].todo = Tail(@), ![t].cur = p, ![t].content = fs[p],
                             ![t].pending = rows,
                             ![t].pc = IF Len(rows) >= BATCH_SIZE THEN "flush" ELSE "walk"]
    /\ UNCHANGED <<index, meta, disk_index, disk_meta, index_lock, meta_lock, task, fs, hist>>

\* Faulty variant of IxNextFile: an error of collect_file_chunks is propagated
\* with `?` and ends the run, where the code logs it and continues the walk.
IxNextFile_abortingRun(t, fail) ==
    /\ run[t].pc = "walk"
    /\ run[t].todo # <<>>
    /\ LET p == Head(run[t].todo)
       IN IF fail
          THEN /\ run' = [run EXCEPT ![t].todo = Tail(@), ![t].failed = @ \cup {p},
                                     ![t].pc = "done", ![t].res = "err"]
               /\ hist' = Failed(fail)
               /\ UNCHANGED task
          ELSE /\ run' = [run EXCEPT ![t].todo = Tail(@), ![t].cur = p,
                                     ![t].content = fs[p], ![t].pc = "deleting"]
               /\ CallDelete(t, p)
               /\ UNCHANGED hist
    /\ UNCHANGED <<index, meta, disk_index, disk_meta, index_lock, meta_lock, fs>>

\* The next entry of the walk and the start of collect_file_chunks: read the
\* file (an error skips the file), then call store.delete_file(rel_path).
IxNextFile(t, fail) ==
    /\ run[t].pc = "walk"
    /\ run[t].todo # <<>>
    /\ LET p == Head(run[t].todo)
       IN IF fail
          THEN /\ run' = [run EXCEPT ![t].todo = Tail(@), ![t].failed = @ \cup {p}]
               /\ hist' = Failed(fail)
               /\ UNCHANGED task
          ELSE /\ run' = [run EXCEPT ![t].todo = Tail(@), ![t].cur = p,
                                     ![t].content = fs[p], ![t].pc = "deleting"]
               /\ CallDelete(t, p)
               /\ UNCHANGED hist
    /\ UNCHANGED <<index, meta, disk_index, disk_meta, index_lock, meta_lock, fs>>

\* delete_file has returned: its error or a chunker error skips the file; else
\* the file's chunks are appended to pending_rows, and the batch is flushed
\* when it has reached BATCH_SIZE.
IxAfterDelete(t, fail) ==
    /\ run[t].pc = "deleting"
    /\ task[t].pc = "ret"
    /\ task' = [task EXCEPT ![t] = IdleTask]
    /\ IF task[t].res = "err"
       THEN /\ run' = [run EXCEPT ![t].pc = "walk"]
            /\ UNCHANGED hist
       ELSE IF fail
       THEN /\ run' = [run EXCEPT ![t].pc = "walk", ![t].deleted = @ \cup {run[t].cur},
                                     ![t].failed = @ \cup {run[t].cur}]
            /\ hist' = Failed(fail)
       ELSE LET rows == run[t].pending \o FileChunks(run[t].cur, run[t].content)
            IN /\ run' = [run EXCEPT ![t].pending = rows,
                                     ![t].deleted = @ \cup {run[t].cur},
                                     ![t].pc = IF Len(rows) >= BATCH_SIZE THEN "flush" ELSE "walk"]
               /\ UNCHANGED hist
    /\ UNCHANGED <<index, meta, disk_index, disk_meta, index_lock, meta_lock, fs>>

\* The walk is over: flush what remains, then chunk_count.
IxWalkEnd(t) ==
    /\ run[t].pc = "walk"
    /\ run[t].todo = <<>>
    /\ IF run[t].pending # <<>>
       THEN /\ run' = [run EXCEPT ![t].pc = "flush", ![t].final = TRUE]
            /\ UNCHANGED task
       ELSE /\ run' = [run EXCEPT ![t].pc = "counting"]
            /\ CallCount(t)
    /\ UNCHANGED <<index, meta, disk_index, disk_meta, index_lock, meta_lock, fs, hist>>

\* flush_batch: take the pending rows, embed them (an error ends the run),
\* call store.insert.
IxFlush(t, fail) ==
    /\ run[t].pc = "flush"
    /\ IF fail
       THEN /\ run' = [run EXCEPT ![t].pc = "done", ![t].res = "err", ![t].pending = <<>>]
            /\ hist' = Failed(fail)
            /\ UNCHANGED task
       ELSE /\ run' = [run EXCEPT ![t].pc = "flushing", ![t].pending = <<>>,
                                  ![t].batch = run[t].pending]
            /\ CallInsert(t, run[t].pending)
            /\ UNCHANGED hist
    /\ UNCHANGED <<index, meta, disk_index, disk_meta, index_lock, meta_lock, fs>>

\* store.insert has returned to flush_batch: its error ends the run.
IxAfterFlush(t) ==
    /\ run[t].pc = "flushing"
    /\ task[t].pc = "ret"
    /\ IF task[t].res = "err"
       THEN /\ run' = [run EXCEPT ![t].pc = "done", ![t].res = "err"]
            /\ task' = [task EXCEPT ![t] = IdleTask]
       ELSE IF run[t].final
       THEN /\ run' = [run EXCEPT ![t].pc = "counting"]
            /\ CallCount(t)
       ELSE /\ run' = [run EXCEPT ![t].pc = "walk"]
            /\ task' = [task EXCEPT ![t] = IdleTask]
    /\ UNCHANGED <<index, meta, disk_index, disk_meta, index_lock, meta_lock, fs, hist>>

\* chunk_count has returned: the run returns Ok.
IxDone(t) ==
    /\ run[t].pc = "counting"
    /\ task[t].pc = "ret"
    /\ run' = [run EXCEPT ![t].pc = "done", ![t].res = "ok"]
    /\ task' = [task EXCEPT ![t] = IdleTask]
    /\ UNCHANGED <<index, meta, disk_index, disk_meta, index_lock, meta_lock, fs, hist>>

\* Faulty variant of IndexDirectoryAgain: pending_rows outlives the call (a
\* field of the Indexer rather than the local Vec of line 41), so a run starts
\* with the rows a cancelled run had collected.
IndexDirectoryAgain_keepingPending(t) ==
    /\ task[t].pc = "idle"
    /\ run[t].pc = "done"
    /\ \E order \in Orders(Paths) :
          run' = [run EXCEPT ![t] =
                     [NoRun EXCEPT !.pc = "walk", !.todo = order,
                                   !.pending = run[t].pending,
                                   !.prev = [valid |-> run[t].res = "ok",
                                             res |-> run[t].res,
                                             next_key |-> meta.next_key,
                                             files |-> ListFilesOf(meta.chunks, NoLang),
                                             count |-> Cardinality(DOMAIN meta.chunks)]]]
    /\ UNCHANGED <<index, meta, disk_index, disk_meta, index_lock, meta_lock, task, fs, hist>>

\* index_directory called again after a run has returned (a second call in
\* sequence, as the reindex tool does after the startup run): the run starts
\* over; what list_files() and chunk_count() gave after the run that ended,
\* and the next_key the run starts at, are kept for the properties.
IndexDirectoryAgain(t) ==
    /\ task[t].pc = "idle"
    /\ run[t].pc = "done"
    /\ \E order \in Orders(Paths) :
          run' = [run EXCEPT ![t] =
                     [NoRun EXCEPT !.pc = "walk", !.todo = order,
                                   !.prev = [valid |-> run[t].res = "ok",
                                             res |-> run[t].res,
                                             next_key |-> meta.next_key,
                                             files |-> ListFilesOf(meta.chunks, NoLang),
                                             count |-> Cardinality(DOMAIN meta.chunks)]]]
    /\ UNCHANGED <<index, meta, disk_index, disk_meta, index_lock, meta_lock, task, fs, hist>>

IndexerStep(t, F) ==
    \/ IndexDirectory(t)
    \/ \E fail \in F : IxNextFile(t, fail)
    \/ \E fail \in F : IxAfterDelete(t, fail)
    \/ IxWalkEnd(t)
    \/ \E fail \in F : IxFlush(t, fail)
    \/ IxAfterFlush(t)
    \/ IxDone(t)

\* ---- the store used by one caller that also queries it ----------------------
\* No call fails here.  The rows the caller inserts: symbol names in mixed
\* case, a row without a name, two languages, two rows of one file.
QueryRows ==
    {Row("a.go", 0, "go", Some(<<"F", "o">>), "function"),
     Row("a.go", 1, "go", None, NoKind),
     Row("b.go", 0, "go", Some(<<"o", "F", "O">>), "type"),
     Row("c.rs", 0, "rust", Some(<<"f", "o", "o">>), "function")}
QueryBatches == SeqsUpTo(QueryRows, MaxRows)

Reverse(s) == [i \in 1..Len(s) |-> s[Len(s) + 1 - i]]
Languages == {NoLang, "go", "rust"}
Kinds == {NoKind, "function", "type"}
Patterns == {<<>>, <<"f">>, <<"F", "O">>, <<"o", "f">>}
SearchQueries ==
    [rank : {KeyOrder, Reverse(KeyOrder)}, limit : 0..MaxLimit, lang : Languages,
     pattern : {<<>>}, kind : {NoKind}]
FindQueries ==
    [rank : {KeyOrder}, limit : 0..MaxLimit, lang : {NoLang}, pattern : Patterns, kind : Kinds]
ListQueries ==
    [rank : {KeyOrder}, limit : {MaxKey}, lang : Languages, pattern : {<<>>}, kind : {NoKind}]

SearchFor(t, q) ==
    /\ Free(t)
    /\ CallSearch(t, q)
    /\ UNCHANGED <<index, meta, disk_index, disk_meta, index_lock, meta_lock, run, fs, hist>>

FindBySymbol(t, q) ==
    /\ Free(t)
    /\ CallFind(t, q)
    /\ UNCHANGED <<index, meta, disk_index, disk_meta, index_lock, meta_lock, run, fs, hist>>

ListFiles(t, q) ==
    /\ Free(t)
    /\ CallList(t, q)
    /\ UNCHANGED <<index, meta, disk_index, disk_meta, index_lock, meta_lock, run, fs, hist>>

NextQuery ==
    \/ Free(Client) /\ \E rs \in QueryBatches : Insert(Client, rs)
    \/ \E p \in AllPaths : DeleteFile(Client, p)
    \/ Free(Client) /\ \E q \in SearchQueries : SearchFor(Client, q)
    \/ Free(Client) /\ \E q \in FindQueries : FindBySymbol(Client, q)
    \/ Free(Client) /\ \E q \in ListQueries : ListFiles(Client, q)
    \/ ChunkCount(Client)
    \/ Return(Client)
    \/ StoreStep(Client, {FALSE})
    \/ FindRead(Client)
    \/ ListRead(Client)

SpecQuery == Init /\ [][NextQuery]_vars

\* ---- the store searched by one caller, with failing calls and reopen --------
\* Two rows of different languages.
SearchRows ==
    {Row("a.go", 0, "go", Some(<<"F", "o">>), "function"),
     Row("c.rs", 0, "rust", Some(<<"f", "o", "o">>), "function")}
SearchBatches == SeqsUpTo(SearchRows, MaxRows)

NextSearch ==
    \/ Free(Client) /\ \E rs \in SearchBatches : Insert(Client, rs)
    \/ \E p \in AllPaths : DeleteFile(Client, p)
    \/ Free(Client) /\ \E q \in SearchQueries : SearchFor(Client, q)
    \/ Return(Client)
    \/ WriteStep(Client, Outcomes)
    \/ SearchStep(Client)
    \/ AcquireMetaRead(Client)
    \/ New

SpecSearch == Init /\ [][NextSearch]_vars

\* ---- ClaudevilServer::read_file ----------------------------------------------
\* The file system the server runs on: a path is the sequence of its
\* components below "/".  /lr is a symlink to the project directory /r and is
\* the argument the server was started with; /o lies outside the project.
Dir == [kind |-> "dir", target |-> <<>>, content |-> ""]
File(c) == [kind |-> "file", target |-> <<>>, content |-> c]
Link(tgt) == [kind |-> "link", target |-> tgt, content |-> ""]
Tree ==
    (<<>> :> Dir) @@ (<<"r">> :> Dir) @@ (<<"lr">> :> Link(<<"r">>)) @@
    (<<"r", "a.go">> :> File("text of a.go")) @@
    (<<"r", "d">> :> Dir) @@ (<<"r", "d", "b.go">> :> File("text of b.go")) @@
    (<<"r", "in">> :> Link(<<"r", "a.go">>)) @@
    (<<"r", "out">> :> Link(<<"o", "s.txt">>)) @@
    (<<"r", "loop">> :> Link(<<"r", "loop">>)) @@
    (<<"o">> :> Dir) @@ (<<"o", "s.txt">> :> File("text of s.txt"))
MaxLinks == 2
Names == {"a.go", "b.go", "d", "in", "out", "loop", "..", "r", "o", "s.txt", "nope"}
Requests == [abs : BOOLEAN, comps : UNION {[1..n -> Names] : n \in 0..MaxDepth}]

Parent(p) == IF p = <<>> THEN <<>> ELSE SubSeq(p, 1, Len(p) - 1)

\* std::fs::canonicalize: resolve the components left to right from the
\* resolved directory cur; ".." goes to the parent, a symlink is replaced by
\* its (absolute) target, a missing entry or a symlink loop is an error.
RECURSIVE Canonicalize(_, _, _)
Canonicalize(cur, rest, links) ==
    IF rest = <<>> THEN [ok |-> TRUE, path |-> cur]
    ELSE IF Tree[cur].kind # "dir" THEN [ok |-> FALSE, path |-> <<>>]
    ELSE IF Head(rest) = ".." THEN Canonicalize(Parent(cur), Tail(rest), links)
    ELSE LET child == Append(cur, Head(rest))
         IN IF child \notin DOMAIN Tree THEN [ok |-> FALSE, path |-> <<>>]
            ELSE IF Tree[child].kind = "link"
            THEN IF links = 0 THEN [ok |-> FALSE, path |-> <<>>]
                 ELSE Canonicalize(<<>>, Tree[child].target \o Tail(rest), links - 1)
            ELSE Canonicalize(child, Tail(rest), links)

\* main.rs:25-31: the root is the canonical form of the argument.
RootArg == <<"lr">>
Root == Canonicalize(<<>>, RootArg, MaxLinks).path

\* PathBuf::join: an absolute path replaces the base.
Join(base, req) == IF req.abs THEN req.comps ELSE base \o req.comps

\* Faulty variant of StartsWith: the check of the prefix is left out.
StartsWith_anything(p, base) == TRUE

\* Path::starts_with: base is a prefix of p, component by component.
StartsWith(p, base) == Len(p) >= Len(base) /\ SubSeq(p, 1, Len(base)) = base

ErrorResp == [kind |-> "error", content |-> ""]

\* The handler up to its await: join, canonicalize (an error is "file not
\* found"), the check against the root (an error is the rejection).
ReadFile(t, req) ==
    /\ Free(t)
    /\ LET canonical == Canonicalize(<<>>, Join(Root, req), MaxLinks)
       IN task' = [task EXCEPT ![t] =
                      IF canonical.ok /\ StartsWith(canonical.path, Root)
                      THEN [IdleTask EXCEPT !.pc = "rf_read", !.op = "read_file", !.req = req]
                      ELSE [IdleTask EXCEPT !.pc = "ret", !.op = "read_file", !.req = req,
                                            !.res = "err", !.resp = ErrorResp]]
    /\ UNCHANGED <<index, meta, disk_index, disk_meta, index_lock, meta_lock, run, fs, hist>>

\* tokio::fs::read_to_string(&canonical): the text of a regular file, an
\* error for a directory or a failing read.
ReadFileRead(t, fail) ==
    /\ task[t].pc = "rf_read"
    /\ LET canonical == Canonicalize(<<>>, Join(Root, task[t].req), MaxLinks).path
       IN IF fail \/ Tree[canonical].kind # "file"
          THEN /\ task' = [task EXCEPT ![t].pc = "ret", ![t].res = "err", ![t].resp = ErrorResp]
               /\ hist' = Failed(fail)
          ELSE /\ task' = [task EXCEPT ![t].pc = "ret", ![t].res = "ok",
                                       ![t].resp = [kind |-> "content",
                                                    content |-> Tree[canonical].content]]
               /\ UNCHANGED hist
    /\ UNCHANGED <<index, meta, disk_index, disk_meta, index_lock, meta_lock, run, fs>>

NextReadFile ==
    \/ Free(Client) /\ \E req \in Requests : ReadFile(Client, req)
    \/ \E fail \in Outcomes : ReadFileRead(Client, fail)
    \/ Return(Client)

SpecReadFile == Init /\ [][NextReadFile]_vars

\* ---- tasks sharing the store: tool handlers serving queries and writes -----
NextShared ==
    \E t \in Tasks :
        \/ \E rs \in Batches : Insert(t, rs)
        \/ \E p \in Paths : DeleteFile(t, p)
        \/ Search(t)
        \/ ChunkCount(t)
        \/ Return(t)
        \/ StoreStep(t, {FALSE})

SpecShared == Init /\ [][NextShared]_vars

\* ---- index_directory runs sharing the store: startup run and reindex runs --
InitIndexing ==
    /\ index = {}
    /\ meta = [next_key |-> 0, chunks |-> EmptyChunks]
    /\ disk_index = NoIndexFile
    /\ disk_meta = NoMetaFile
    /\ index_lock = Unlocked
    /\ meta_lock = Unlocked
    /\ task = [t \in Tasks |-> IdleTask]
    /\ run = [t \in Tasks |-> NoRun]
    /\ fs \in [Paths -> 0..MaxChunks]
    /\ hist = [assigned |-> {}, reused |-> FALSE, all_ok |-> TRUE, fails |-> 0,
               idx_loaded |-> FALSE, meta_loaded |-> FALSE, balance |-> 0]

NextIndexing ==
    \E t \in Tasks :
        \/ IndexerStep(t, Outcomes)
        \/ WriteStep(t, Outcomes)
        \/ CountStep(t)

SpecIndexing == InitIndexing /\ [][NextIndexing]_vars

\* ---- index_directory called repeatedly by one task, one run after the other -
NextRuns ==
    \/ IndexerStep(Client, Outcomes)
    \/ IndexDirectoryAgain(Client)
    \/ WriteStep(Client, Outcomes)
    \/ CountStep(Client)

SpecRuns == InitIndexing /\ [][NextRuns]_vars

\* ---- index_directory cancelled: its future is dropped at an .await -----------
\* Where a store call is suspended: at meta.write(), index.write() or
\* meta.read(), and at tokio::fs::write inside persist_locked.  The steps
\* between them run without an .await.
SuspendedAt == {"ins_meta", "ins_index", "del_meta", "del_index", "persist_meta", "cnt_meta"}

\* The run is dropped while it awaits the read of the next file or embed_batch
\* (no store call in progress), or inside a store call at one of its awaits.
\* Its guards are released; its pending rows are locals of the call, which the
\* next call does not see.  Dropped at tokio::fs::write, the blocking write has
\* either taken place or not.
Cancel(t) ==
    /\ \/ run[t].pc \in {"walk", "flush"} /\ task[t].pc = "idle"
       \/ run[t].pc \in {"deleting", "flushing", "counting"} /\ task[t].pc \in SuspendedAt
    /\ run' = [run EXCEPT ![t].pc = "done", ![t].res = "cancelled"]
    /\ task' = [task EXCEPT ![t] = IdleTask]
    /\ ReleaseLocks(t)
    /\ IF task[t].pc = "persist_meta"
       THEN disk_meta' \in {disk_meta,
                            [exists |-> TRUE, next_key |-> meta.next_key, chunks |-> meta.chunks]}
       ELSE UNCHANGED disk_meta
    /\ UNCHANGED <<index, meta, disk_index, fs, hist>>

\* One task calling index_directory again and again; a run may be cancelled;
\* no call fails.
NextCancel ==
    \/ IndexerStep(Client, {FALSE})
    \/ IndexDirectoryAgain(Client)
    \/ WriteStep(Client, {FALSE})
    \/ CountStep(Client)
    \/ Cancel(Client)

SpecCancel == InitIndexing /\ [][NextCancel]_vars

\* ---- a crash inside persist_locked, and the restart ---------------------------
\* The process dies when persist_locked has saved the index file and has not
\* written metadata.json; main then runs again: VectorStore::new loads what
\* the files hold, and the startup run of index_directory is spawned.  The
\* count of rows inserted less rows deleted starts again from the rows loaded.
CrashAndRestart(t) ==
    /\ task[t].pc = "persist_meta"
    /\ index' = LoadIndex(disk_index)
    /\ meta' = LoadMeta(disk_meta)
    /\ index_lock' = Unlocked
    /\ meta_lock' = Unlocked
    /\ task' = [u \in Tasks |-> IdleTask]
    /\ \E order \in Orders(Paths) :
          run' = [u \in Tasks |->
                     IF u = t
                     THEN [NoRun EXCEPT !.pc = "walk", !.todo = order,
                                        !.prev = [valid |-> FALSE, res |-> "crashed",
                                                  next_key |-> LoadMeta(disk_meta).next_key,
                                                  files |-> ListFilesOf(LoadMeta(disk_meta).chunks, NoLang),
                                                  count |-> Cardinality(DOMAIN LoadMeta(disk_meta).chunks)]]
                     ELSE NoRun]
    /\ hist' = [hist EXCEPT !.idx_loaded = disk_index.exists, !.meta_loaded = disk_meta.exists,
                            !.balance = Cardinality(DOMAIN LoadMeta(disk_meta).chunks)]
    /\ UNCHANGED <<disk_index, disk_meta, fs>>

\* The startup run, crashes in the window, and the runs after restart; no
\* call fails.
NextCrash ==
    \/ IndexerStep(Client, {FALSE})
    \/ WriteStep(Client, {FALSE})
    \/ CountStep(Client)
    \/ CrashAndRestart(Client)

SpecCrash == InitIndexing /\ [][NextCrash]_vars

\* ---- Embedder: embed_batch, embed_one ------------------------------------------
\* A text is the sequence of its words; the tokenizer gives each word its id
\* and, with add_special_tokens, puts [CLS] before and [SEP] after.
Words == {"func", "main"}
PAD == 0
CLS == 101
SEP == 102
WordId(w) == IF w = "func" THEN 203 ELSE 204
Texts == UNION {[1..n -> Words] : n \in 0..(MAX_SEQ_LEN - 1)}
TextBatches == UNION {[1..n -> Texts] : n \in 0..MaxRows}

\* f32 values are fixed-point numbers with three decimals.  NaN is what 0/0
\* gives: it stands outside the range of the components of a normalized vector.
Scale == 1000
NaN == 0 - (2 * Scale)

RECURSIVE SumSeq(_)
SumSeq(s) == IF s = <<>> THEN 0 ELSE Head(s) + SumSeq(Tail(s))

RECURSIVE SqrtBetween(_, _, _)
SqrtBetween(n, lo, hi) ==
    IF lo >= hi THEN lo
    ELSE LET mid == (lo + hi + 1) \div 2
         IN IF mid * mid <= n THEN SqrtBetween(n, mid, hi) ELSE SqrtBetween(n, lo, mid - 1)
\* Tensor::sqrt, rounded down to the fixed-point grid.
Sqrt(n) == SqrtBetween(n, 0, 3 * Scale * EMBEDDING_DIM)

\* Tokenizer::encode with truncation to MAX_SEQ_LEN tokens, special tokens
\* included.
Encode(text) ==
    LET kept == Prefix(text, MAX_SEQ_LEN - 2)
        ids == <<CLS>> \o [i \in 1..Len(kept) |-> WordId(kept[i])] \o <<SEP>>
    IN [ids |-> ids, attention_mask |-> [i \in 1..Len(ids) |-> 1]]

\* PaddingStrategy::BatchLongest: [PAD] with attention 0 up to the longest
\* encoding of the batch.
PadTo(enc, n) ==
    [ids |-> enc.ids \o [i \in 1..(n - Len(enc.ids)) |-> PAD],
     attention_mask |-> enc.attention_mask \o [i \in 1..(n - Len(enc.ids)) |-> 0]]

Longest(encs) ==
    IF encs = <<>> THEN 0
    ELSE CHOOSE n \in {Len(encs[i].ids) : i \in 1..Len(encs)} :
             \A i \in 1..Len(encs) : Len(encs[i].ids) <= n

\* Faulty variant of EncodeBatch: the encodings come back in reverse order.
EncodeBatch_reversed(texts) ==
    LET encs == [i \in 1..Len(texts) |-> Encode(texts[Len(texts) + 1 - i])]
    IN [i \in 1..Len(texts) |-> PadTo(encs[i], Longest(encs))]

\* Tokenizer::encode_batch(refs, true): one encoding for each text, in the
\* order of the texts.
EncodeBatch(texts) ==
    LET encs == [i \in 1..Len(texts) |-> Encode(texts[i])]
    IN [i \in 1..Len(texts) |-> PadTo(encs[i], Longest(encs))]

\* BertModel::forward for one row of the batch, [seq_len, hidden_size]: the
\* weights are not part of the source, so each token id stands for a fixed
\* hidden state, with components between -2 and 2.
TokenState(tok, d) == (((tok + 1) * (d + 1)) % 5) - 2
BertForward(ids) ==
    [pos \in 1..Len(ids) |-> [d \in 1..EMBEDDING_DIM |-> Scale * TokenState(ids[pos], d)]]

\* Mean pooling with the attention mask: sum over the positions of the masked
\* hidden states, divided by the count of attended positions.
MeanPool(h, mask) ==
    [d \in 1..EMBEDDING_DIM |->
        SumSeq([pos \in 1..Len(mask) |-> h[pos][d] * mask[pos]]) \div SumSeq(mask)]

\* Faulty variant of Normalize: the pooled vector is returned as it is.
Normalize_skipped(v) == v

\* L2 normalization: every component divided by sqrt of the sum of squares.
Normalize(v) ==
    LET norm == Sqrt(SumSeq([d \in 1..EMBEDDING_DIM |-> v[d] * v[d]]))
    IN [d \in 1..EMBEDDING_DIM |-> IF norm = 0 THEN NaN ELSE (v[d] * Scale) \div norm]

\* Embedder::forward: one vector for each encoding, to_vec2 of [batch, hidden].
Forward(encodings) ==
    [i \in 1..Len(encodings) |->
        Normalize(MeanPool(BertForward(encodings[i].ids), encodings[i].attention_mask))]

EmbedBatchSync(texts) == Forward(EncodeBatch(texts))

\* embed_batch(texts): empty input returns before spawn_blocking; n counts the
\* calls of embed_batch_sync.
EmbedBatch(t, texts) ==
    /\ Free(t)
    /\ task' = [task EXCEPT ![t] =
                   IF texts = <<>>
                   THEN [IdleTask EXCEPT !.pc = "ret", !.op = "embed_batch", !.res = "ok",
                                         !.req = texts, !.resp = <<>>]
                   ELSE [IdleTask EXCEPT !.pc = "blocking", !.op = "embed_batch", !.req = texts]]
    /\ UNCHANGED <<index, meta, disk_index, disk_meta, index_lock, meta_lock, run, fs, hist>>

\* embed_one(text): embed_batch(vec![text]), then results.pop().
EmbedOne(t, text) ==
    /\ Free(t)
    /\ task' = [task EXCEPT ![t] =
                   [IdleTask EXCEPT !.pc = "blocking", !.op = "embed_one", !.req = <<text>>]]
    /\ UNCHANGED <<index, meta, disk_index, disk_meta, index_lock, meta_lock, run, fs, hist>>

\* The blocking task has run embed_batch_sync: tokenizer or inference error, or
\* the vectors; embed_one pops the last of them.
EmbedBlocking(t, fail) ==
    /\ task[t].pc = "blocking"
    /\ IF fail
       THEN task' = [task EXCEPT ![t].pc = "ret", ![t].res = "err", ![t].n = 1]
       ELSE LET results == EmbedBatchSync(task[t].req)
            IN task' = [task EXCEPT ![t].pc = "ret", ![t].res = "ok", ![t].n = 1,
                                    ![t].resp = IF task[t].op = "embed_one"
                                                THEN results[Len(results)]
                                                ELSE results]
    /\ hist' = Failed(fail)
    /\ UNCHANGED <<index, meta, disk_index, disk_meta, index_lock, meta_lock, run, fs>>

NextEmbed ==
    \/ Free(Client) /\ \E texts \in TextBatches : EmbedBatch(Client, texts)
    \/ Free(Client) /\ \E text \in Texts : EmbedOne(Client, text)
    \/ \E fail \in Outcomes : EmbedBlocking(Client, fail)
    \/ Return(Client)

SpecEmbed == Init /\ [][NextEmbed]_vars

\* ---- Config::load ------------------------------------------------------------
LangConfig(extensions, grammar, chunk_on) ==
    [extensions |-> extensions, grammar |-> grammar, chunk_on |-> chunk_on]

\* default_config(): go, rust and python, each without chunk_on.
DefaultConfig ==
    ("go" :> LangConfig(<<"go">>, "tree-sitter-go", None)) @@
    ("rust" :> LangConfig(<<"rs">>, "tree-sitter-rust", None)) @@
    ("python" :> LangConfig(<<"py">>, "tree-sitter-python", None))

\* default_chunk_on(language)
DefaultChunkOn(language) ==
    CASE language = "go" ->
           <<"function_declaration", "method_declaration", "type_declaration",
             "const_declaration", "var_declaration">>
      [] language = "rust" ->
           <<"function_item", "impl_item", "struct_item", "enum_item", "trait_item",
             "mod_item", "const_item", "type_item", "static_item", "macro_definition">>
      [] language = "python" ->
           <<"function_definition", "class_definition", "decorated_definition">>
      [] OTHER -> <<>>

\* What config.toml can hold: [lang.<name>] tables for built-in names and for a
\* name without built-in defaults, with chunk_on omitted, empty or given.
LangNames == {"go", "rust", "python", "zig"}
UserEntries ==
    {LangConfig(<<"x">>, "tree-sitter-x", c) : c \in {None, Some(<<>>), Some(<<"node">>)}}
UserConfigs == UNION {[S -> UserEntries] : S \in SUBSET LangNames}
\* The file is absent, cannot be read, is not valid TOML, or parses to a Config.
ConfigFiles ==
    {[kind |-> k, lang |-> <<>>] : k \in {"absent", "unreadable", "invalid"}} \cup
    {[kind |-> "toml", lang |-> user] : user \in UserConfigs}

\* Faulty variant of Merge: an entry of the file does not replace the built-in
\* entry of the same name.
Merge_keepingBuiltin(config, user) ==
    [name \in DOMAIN config \cup DOMAIN user |->
        IF name \in DOMAIN config THEN config[name] ELSE user[name]]

\* for (name, lang) in user.lang { config.lang.insert(name, lang) }
Merge(config, user) ==
    [name \in DOMAIN config \cup DOMAIN user |->
        IF name \in DOMAIN user THEN user[name] ELSE config[name]]

ConfigError == [kind |-> "Error::Config", lang |-> <<>>]

\* Config::load: defaults, the entries of the file over them, then the
\* validation loop, which returns the error of the first language it finds
\* with neither chunk_on nor built-in defaults.
Load(file) ==
    IF file.kind \in {"unreadable", "invalid"} THEN ConfigError
    ELSE LET config == IF file.kind = "absent" THEN DefaultConfig
                       ELSE Merge(DefaultConfig, file.lang)
         IN IF \E name \in DOMAIN config :
                   ~config[name].chunk_on.some /\ DefaultChunkOn(name) = <<>>
            THEN ConfigError
            ELSE [kind |-> "Ok",
                  lang |-> [name \in DOMAIN config |->
                               IF config[name].chunk_on.some THEN config[name]
                               ELSE [config[name] EXCEPT
                                        !.chunk_on = Some(DefaultChunkOn(name))]]]

\* main calls Config::load() once at startup; the call has no .await.
ConfigLoad(t, file) ==
    /\ Free(t)
    /\ task' = [task EXCEPT ![t] =
                   [IdleTask EXCEPT !.pc = "ret", !.op = "load", !.req = file,
                                    !.resp = Load(file),
                                    !.res = IF Load(file).kind = "Ok" THEN "ok" ELSE "err"]]
    /\ UNCHANGED <<index, meta, disk_index, disk_meta, index_lock, meta_lock, run, fs, hist>>

NextConfig ==
    \/ Free(Client) /\ \E file \in ConfigFiles : ConfigLoad(Client, file)
    \/ Return(Client)

SpecConfig == Init /\ [][NextConfig]_vars

\* ---- chunker: chunk_file, chunk_go ---------------------------------------------
\* A source text is the sequence of its characters.  The lines the texts are
\* made of: blank, comment, the declarations chunk_go knows, with and without
\* a block left open, closing lines, and a line that is no declaration.
NL == "\n"
LineBlank == <<" ">>
LineComment == <<"/", "/", " ", "c">>
LinePackage == <<"p", "a", "c", "k", "a", "g", "e", " ", "p">>
LineImport == <<"i", "m", "p", "o", "r", "t", " ", "(">>
LineParen == <<")">>
LineFunc == <<"f", "u", "n", "c", " ", "f", "(", ")", " ", "{">>
LineBrace == <<"}">>
LineFuncType == <<"f", "u", "n", "c", " ", "g", "(", ")">>
LineType == <<"t", "y", "p", "e", " ", "T", " ", "i", "n", "t">>
LineVar == <<"v", "a", "r", " ", "x">>
LineOther == <<"x">>
GoLines == {LineBlank, LineComment, LinePackage, LineImport, LineParen, LineFunc, LineBrace, LineFuncType, LineType, LineVar, LineOther}

RECURSIVE JoinLines(_)
JoinLines(ls) ==
    IF ls = <<>> THEN <<>>
    ELSE IF Len(ls) = 1 THEN ls[1]
    ELSE ls[1] \o <<NL>> \o JoinLines(Tail(ls))
\* The texts: up to MaxLines lines, the last with or without its line feed.
Sources ==
    UNION {{JoinLines(ls) : ls \in [1..n -> GoLines]} \cup
           {JoinLines(ls) \o <<NL>> : ls \in [1..n -> GoLines]} : n \in 0..MaxLines}

\* str::lines: the text split at line feeds; a final line feed ends the last
\* line and starts no new one.
RECURSIVE SplitLines(_, _)
SplitLines(text, cur) ==
    IF text = <<>> THEN (IF cur = <<>> THEN <<>> ELSE <<cur>>)
    ELSE IF Head(text) = NL THEN <<cur>> \o SplitLines(Tail(text), <<>>)
    ELSE SplitLines(Tail(text), Append(cur, Head(text)))
Lines(text) == SplitLines(text, <<>>)

IsSpace(c) == c \in {" ", "\t"}
RECURSIVE TrimStart(_)
TrimStart(line) ==
    IF line # <<>> /\ IsSpace(Head(line)) THEN TrimStart(Tail(line)) ELSE line
RECURSIVE TrimEnd(_)
TrimEnd(line) ==
    IF line # <<>> /\ IsSpace(line[Len(line)])
    THEN TrimEnd(SubSeq(line, 1, Len(line) - 1)) ELSE line
\* str::trim
Trim(line) == TrimEnd(TrimStart(line))

\* str::starts_with and str::contains(char)
StartsWithStr(line, prefix) ==
    Len(line) >= Len(prefix) /\ SubSeq(line, 1, Len(prefix)) = prefix
ContainsChar(line, c) == \E k \in 1..Len(line) : line[k] = c

IsCommentLine(line) ==
    \/ StartsWithStr(Trim(line), <<"/", "/">>)
    \/ StartsWithStr(Trim(line), <<"/", "*">>)
    \/ StartsWithStr(Trim(line), <<"*", " ">>)

\* `while i < lines.len() && is_comment_line(lines[i]) { i += 1 }`; indices
\* count from 0 as in the code, lines[i] being the model's lines[i + 1].
RECURSIVE SkipComments(_, _)
SkipComments(lines, i) ==
    IF i < Len(lines) /\ IsCommentLine(lines[i + 1]) THEN SkipComments(lines, i + 1) ELSE i

\* source_contains_brace: '{' on the line or on one of the five lines after
\* it, up to the first blank one.
RECURSIVE BraceFrom(_, _, _)
BraceFrom(lines, start, j) ==
    IF j >= Len(lines) \/ j >= start + 6 THEN FALSE
    ELSE IF ContainsChar(lines[j + 1], "{") THEN TRUE
    ELSE IF j > start /\ Trim(lines[j + 1]) = <<>> THEN FALSE
    ELSE BraceFrom(lines, start, j + 1)
SourceContainsBrace(lines, start) == BraceFrom(lines, start, start)

\* Faulty variant of Fallback: one past the last line.
Fallback_pastEnd(lines) == Len(lines)

\* lines.len().saturating_sub(1)
Fallback(lines) == IF Len(lines) = 0 THEN 0 ELSE Len(lines) - 1

\* find_closing: the line on which a `close` brings the depth back to 0,
\* reading from line `start`; the last line when there is none.
RECURSIVE ClosingFrom(_, _, _, _, _, _)
ClosingFrom(lines, j, k, depth, open, close) ==
    IF j >= Len(lines) THEN Fallback(lines)
    ELSE IF k > Len(lines[j + 1]) THEN ClosingFrom(lines, j + 1, 1, depth, open, close)
    ELSE IF lines[j + 1][k] = open THEN ClosingFrom(lines, j, k + 1, depth + 1, open, close)
    ELSE IF lines[j + 1][k] = close
    THEN (IF depth - 1 = 0 THEN j
          ELSE ClosingFrom(lines, j, k + 1, depth - 1, open, close))
    ELSE ClosingFrom(lines, j, k + 1, depth, open, close)
FindClosing(lines, start, open, close) == ClosingFrom(lines, start, 1, 0, open, close)

\* join_lines: lines[start..=end.min(lines.len() - 1)]
JoinedLines(lines, start, end) ==
    SubSeq(lines, start + 1, (IF end < Len(lines) - 1 THEN end ELSE Len(lines) - 1) + 1)

\* Faulty variant of Chunk: the chunk is taken from the first line of the file.
Chunk_fromFileStart(lines, kind, decl_start, end) ==
    [content |-> JoinedLines(lines, 0, end), symbol_kind |-> kind,
     start_line |-> 1, end_line |-> end + 1]

\* A Chunk; symbol_name and package_name are left out, no line number depends
\* on them.
Chunk(lines, kind, decl_start, end) ==
    [content |-> JoinedLines(lines, decl_start, end), symbol_kind |-> kind,
     start_line |-> decl_start + 1, end_line |-> end + 1]

\* One turn of `while i < lines.len()` in chunk_go, and the turns after it.
RECURSIVE ChunkFrom(_, _, _)
ChunkFrom(lines, i0, chunks) ==
    IF i0 >= Len(lines) THEN chunks
    ELSE IF Trim(lines[i0 + 1]) = <<>> THEN ChunkFrom(lines, i0 + 1, chunks)
    ELSE LET comment_start == i0
             i == SkipComments(lines, i0)
         IN IF i >= Len(lines) THEN chunks
            ELSE LET decl_start == IF i > comment_start THEN comment_start ELSE i
                     trimmed == Trim(lines[i + 1])
                     paren == IF ContainsChar(trimmed, "(")
                              THEN FindClosing(lines, i, "(", ")") ELSE i
                     brace == IF SourceContainsBrace(lines, i)
                              THEN FindClosing(lines, i, "{", "}") ELSE i
                 IN IF StartsWithStr(trimmed, <<"p", "a", "c", "k", "a", "g", "e", " ">>)
                    THEN ChunkFrom(lines, i + 1,
                                   Append(chunks, Chunk(lines, "package", decl_start, i)))
                    ELSE IF StartsWithStr(trimmed, <<"i", "m", "p", "o", "r", "t">>)
                    THEN ChunkFrom(lines, paren + 1,
                                   Append(chunks, Chunk(lines, "import", decl_start, paren)))
                    ELSE IF StartsWithStr(trimmed, <<"f", "u", "n", "c", " ">>)
                    THEN ChunkFrom(lines, brace + 1,
                                   Append(chunks, Chunk(lines, "func", decl_start, brace)))
                    ELSE IF StartsWithStr(trimmed, <<"t", "y", "p", "e", " ">>)
                    THEN ChunkFrom(lines, brace + 1,
                                   Append(chunks, Chunk(lines, "type", decl_start, brace)))
                    ELSE IF StartsWithStr(trimmed, <<"c", "o", "n", "s", "t">>)
                    THEN ChunkFrom(lines, paren + 1,
                                   Append(chunks, Chunk(lines, "const", decl_start, paren)))
                    ELSE IF StartsWithStr(trimmed, <<"v", "a", "r">>)
                    THEN ChunkFrom(lines, paren + 1,
                                   Append(chunks, Chunk(lines, "var", decl_start, paren)))
                    ELSE ChunkFrom(lines, i + 1, chunks)

ChunkGo(source) == ChunkFrom(Lines(source), 0, <<>>)

\* chunk_file(source, language)
ChunkFileOf(source, language) == IF language = "go" THEN ChunkGo(source) ELSE <<>>

\* The slice lines[start..=end.min(lines.len() - 1)] of join_lines panics when
\* it starts more than one line after its last line; start and end are those of
\* the chunk that was pushed.
SlicePanics(lines, chunk) ==
    LET start == chunk.start_line - 1
        last == IF chunk.end_line - 1 < Len(lines) - 1 THEN chunk.end_line - 1 ELSE Len(lines) - 1
    IN start > last + 1 \/ last + 1 > Len(lines)

\* The call returns its chunks, or a slice of join_lines has panicked.
ChunkFile(t, source, language) ==
    /\ Free(t)
    /\ task' = [task EXCEPT ![t] =
                   [IdleTask EXCEPT !.pc = "ret", !.op = "chunk_file",
                                    !.res = IF \E n \in 1..Len(ChunkFileOf(source, language)) :
                                                  SlicePanics(Lines(source),
                                                              ChunkFileOf(source, language)[n])
                                             THEN "panic" ELSE "ok",
                                    !.req = [source |-> source, language |-> language],
                                    !.resp = ChunkFileOf(source, language)]]
    /\ UNCHANGED <<index, meta, disk_index, disk_meta, index_lock, meta_lock, run, fs, hist>>

NextChunk ==
    \/ Free(Client) /\ \E source \in Sources, language \in {"go", "rust"} :
                          ChunkFile(Client, source, language)
    \/ Return(Client)

SpecChunk == Init /\ [][NextChunk]_vars

\* ---- the walk of index_directory ---------------------------------------------
\* A file name is the sequence of its bytes; BadByte is a byte that makes the
\* name invalid UTF-8 (names are OsStr in the code).
BadByte == "0xFF"
Replacement == "U+FFFD"
Dot == "."

\* The project directory: a path is the sequence of the names below the root.
\* a.go; the hidden directory .h holding s.go; ln, a symlink to .h; a hidden
\* file whose name is not valid UTF-8; a file without extension and one whose
\* extension no language has.
RootName == <<Dot, "p">>
NameA == <<"a", Dot, "g", "o">>
NameH == <<Dot, "h">>
NameS == <<"s", Dot, "g", "o">>
NameL == <<"l", "n">>
NameX == <<Dot, BadByte, Dot, "g", "o">>
NameN == <<"n">>
NameT == <<"t", Dot, "t", "x", "t">>
Project ==
    (<<>> :> Dir) @@ (<<NameA>> :> File("a")) @@
    (<<NameH>> :> Dir) @@ (<<NameH, NameS>> :> File("s")) @@
    (<<NameL>> :> Link(<<NameH>>)) @@
    (<<NameX>> :> File("x")) @@ (<<NameN>> :> File("n")) @@ (<<NameT>> :> File("t"))

\* OsStr::to_str: None when the bytes are not valid UTF-8.
ToStr(name) == IF \E i \in 1..Len(name) : name[i] = BadByte THEN None ELSE Some(name)

\* is_hidden: the entry is below the root and its name, as a str, starts with '.'.
IsHidden(depth, name) ==
    /\ depth > 0
    /\ ToStr(name).some /\ Len(name) > 0 /\ name[1] = Dot

\* Path::extension: the part after the last '.', none when there is no '.' or
\* when the only '.' begins the name.
LastDot(name) ==
    LET dots == {i \in 1..Len(name) : name[i] = Dot}
    IN IF dots = {} THEN 0 ELSE CHOOSE i \in dots : \A j \in dots : j <= i
Extension(name) ==
    IF LastDot(name) <= 1 THEN None ELSE Some(SubSeq(name, LastDot(name) + 1, Len(name)))

\* Config::language_for_extension on default_config (config.rs:76-108).
LanguageForExtension(ext) ==
    CASE ext = <<"g", "o">> -> "go"
      [] ext = <<"r", "s">> -> "rust"
      [] ext = <<"p", "y">> -> "python"
      [] OTHER -> NoLang

\* Faulty variant of LanguageOf: a file without a known extension is taken for
\* Go source.
LanguageOf_defaultingToGo(name) ==
    LET ext == Extension(name)
    IN IF ext.some /\ ToStr(ext.val).some /\ LanguageForExtension(ext.val) # NoLang
       THEN LanguageForExtension(ext.val)
       ELSE "go"

\* The language of a file by the extension of its name: none when the name has
\* no extension, when the extension is not valid UTF-8, or when no language
\* has the extension.
LanguageOf(name) ==
    LET ext == Extension(name)
    IN IF ext.some /\ ToStr(ext.val).some THEN LanguageForExtension(ext.val) ELSE NoLang

\* to_string_lossy of the path relative to the root.
Lossy(name) == [i \in 1..Len(name) |-> IF name[i] = BadByte THEN Replacement ELSE name[i]]
RelPath(rel) == [i \in 1..Len(rel) |-> Lossy(rel[i])]

Children(dir) ==
    {c \in DOMAIN Project : Len(c) = Len(dir) + 1 /\ SubSeq(c, 1, Len(dir)) = dir}

\* WalkDir::new(root).follow_links(true).into_iter().filter_entry(|e| !is_hidden(e)):
\* the regular files yielded below the entry with path rel (relative to the
\* root) that resolves to the node at; an entry that is hidden is not yielded
\* and not descended into; a symlink is followed and keeps its own name.
\* With filtered = FALSE: every file below, for the contents of the files.
RECURSIVE Visit(_, _, _, _)
Visit(rel, at, links, filtered) ==
    IF Project[at].kind = "file" THEN {rel}
    ELSE IF Project[at].kind = "link"
    THEN IF links = 0 THEN {} ELSE Visit(rel, Project[at].target, links - 1, filtered)
    ELSE UNION {Visit(Append(rel, c[Len(c)]), c, links, filtered) :
                   c \in {d \in Children(at) :
                             ~filtered \/ ~IsHidden(Len(rel) + 1, d[Len(d)])}}

\* The files index_directory hands to collect_file_chunks: the regular files
\* yielded by the walk whose extension has a language.
WalkedFiles ==
    IF IsHidden(0, RootName) THEN {}
    ELSE {rel \in Visit(<<>>, <<>>, MaxLinks, TRUE) : LanguageOf(rel[Len(rel)]) # NoLang}
EveryFile == Visit(<<>>, <<>>, MaxLinks, FALSE)

InitWalk ==
    /\ index = {}
    /\ meta = [next_key |-> 0, chunks |-> EmptyChunks]
    /\ disk_index = NoIndexFile
    /\ disk_meta = NoMetaFile
    /\ index_lock = Unlocked
    /\ meta_lock = Unlocked
    /\ task = [t \in Tasks |-> IdleTask]
    /\ run = [t \in Tasks |-> NoRun]
    /\ fs \in [{RelPath(rel) : rel \in EveryFile} -> {1}]
    /\ hist = [assigned |-> {}, reused |-> FALSE, all_ok |-> TRUE, fails |-> 0,
               idx_loaded |-> FALSE, meta_loaded |-> FALSE, balance |-> 0]

\* index_directory(root) over the project: the walk yields its files in the
\* order of the directories.
IndexWalk(t) ==
    /\ task[t].pc = "idle"
    /\ run[t].pc = "off"
    /\ \E order \in Orders({RelPath(rel) : rel \in WalkedFiles}) :
          run' = [run EXCEPT ![t] = [NoRun EXCEPT !.pc = "walk", !.todo = order]]
    /\ UNCHANGED <<index, meta, disk_index, disk_meta, index_lock, meta_lock, task, fs, hist>>

\* The steps of a run after its start.
RunStep(t, F) ==
    \/ \E fail \in F : IxNextFile(t, fail)
    \/ \E fail \in F : IxAfterDelete(t, fail)
    \/ IxWalkEnd(t)
    \/ \E fail \in F : IxFlush(t, fail)
    \/ IxAfterFlush(t)
    \/ IxDone(t)

NextWalk ==
    \/ IndexWalk(Client)
    \/ RunStep(Client, Outcomes)
    \/ WriteStep(Client, Outcomes)
    \/ CountStep(Client)

SpecWalk == InitWalk /\ [][NextWalk]_vars

\* ---- ClaudevilServer::reindex ---------------------------------------------
\* Faulty variant of Reindex: the handler awaits the run it has started before
\* it replies.
Reindex_awaitingRun(h, bg) ==
    /\ Free(h)
    /\ bg # h
    /\ task[bg].pc = "idle" /\ run[bg].pc \in {"off", "done"}
    /\ \E order \in Orders(Paths) :
          run' = [run EXCEPT ![bg] = [NoRun EXCEPT !.pc = "walk", !.todo = order,
                                                   !.by = "reindex"]]
    /\ task' = [task EXCEPT ![h] = [IdleTask EXCEPT !.pc = "rx_wait", !.op = "reindex"]]
    /\ UNCHANGED <<index, meta, disk_index, disk_meta, index_lock, meta_lock, fs, hist>>

\* The whole handler, which has no await: tokio::spawn of
\* index_directory(root) on a task bg of its own (a task not running
\* anything), then Ok with the "Re-indexing started" text.
Reindex(h, bg) ==
    /\ Free(h)
    /\ bg # h
    /\ task[bg].pc = "idle" /\ run[bg].pc \in {"off", "done"}
    /\ \E order \in Orders(Paths) :
          run' = [run EXCEPT ![bg] = [NoRun EXCEPT !.pc = "walk", !.todo = order,
                                                   !.by = "reindex"]]
    /\ task' = [task EXCEPT ![h] = [IdleTask EXCEPT !.pc = "ret", !.op = "reindex",
                                                    !.res = "ok"]]
    /\ UNCHANGED <<index, meta, disk_index, disk_meta, index_lock, meta_lock, fs, hist>>

\* The server task (Client) handles one request after the other; the runs it
\* spawns go on beside it.
NextReindex ==
    \/ \E bg \in Tasks : Reindex(Client, bg)
    \/ Search(Client)
    \/ ChunkCount(Client)
    \/ Return(Client)
    \/ SearchStep(Client)
    \/ \E t \in Tasks : CountStep(t)
    \/ \E t \in Tasks \ {Client} :
          \/ \E fail \in Outcomes : IxNextFile(t, fail)
          \/ \E fail \in Outcomes : IxAfterDelete(t, fail)
          \/ IxWalkEnd(t)
          \/ \E fail \in Outcomes : IxFlush(t, fail)
          \/ IxAfterFlush(t)
          \/ IxDone(t)
          \/ WriteStep(t, Outcomes)

SpecReindex == InitIndexing /\ [][NextReindex]_vars

\* ---- index_directory run again after files have been edited --------------------
\* A file's content is replaced between two runs: it then yields n chunks.
Edit(p, n) ==
    /\ \A t \in Tasks : task[t].pc = "idle" /\ run[t].pc \in {"off", "done"}
    /\ run[Client].pc = "done"
    /\ fs[p] # n
    /\ fs' = [fs EXCEPT ![p] = n]
    /\ UNCHANGED <<index, meta, disk_index, disk_meta, index_lock, meta_lock, task, run, hist>>

\* One task calling index_directory again and again over files that change
\* between the runs; calls may fail.
NextEdits ==
    \/ IndexerStep(Client, Outcomes)
    \/ IndexDirectoryAgain(Client)
    \/ WriteStep(Client, Outcomes)
    \/ CountStep(Client)
    \/ \E p \in Paths, n \in 0..MaxChunks : Edit(p, n)

SpecEdits == InitIndexing /\ [][NextEdits]_vars

\* ---- a run of index_directory and a task that reads the store beside it ----------
Runner == "t2"

\* The runner calls index_directory again and again; the server task calls
\* chunk_count while a run is at work; calls of the runner may fail.
NextReader ==
    \/ IndexerStep(Runner, Outcomes)
    \/ IndexDirectoryAgain(Runner)
    \/ WriteStep(Runner, Outcomes)
    \/ \E t \in Tasks : CountStep(t)
    \/ ChunkCount(Client)
    \/ Return(Client)

SpecReader == InitIndexing /\ [][NextReader]_vars

\* ---- a re-index of a project that has changed since its rows were stored -------
\* Rows stored when the project was different: of a.go, of g.go (a file that is
\* gone), of .h/s.go (its directory was not hidden then) and of t.txt (it had
\* an extension with a language then).
NameG == <<"g", Dot, "g", "o">>
StaleOrder == <<<<NameA>>, <<NameG>>, <<NameH, NameS>>, <<NameT>>>>
StaleRows == [i \in 1..Len(StaleOrder) |-> ChunkRow(RelPath(StaleOrder[i]), 0)]
\* The batches of up to MaxRows of these rows, each row once, in that order.
StaleBatches ==
    {SelectSeq(StaleRows, LAMBDA r : r \in chosen) :
        chosen \in {c \in SUBSET {StaleRows[i] : i \in 1..Len(StaleRows)} :
                        Cardinality(c) <= MaxRows}}

\* a.go holds one declaration, the other files of the project none.
InitStale ==
    /\ index = {}
    /\ meta = [next_key |-> 0, chunks |-> EmptyChunks]
    /\ disk_index = NoIndexFile
    /\ disk_meta = NoMetaFile
    /\ index_lock = Unlocked
    /\ meta_lock = Unlocked
    /\ task = [t \in Tasks |-> IdleTask]
    /\ run = [t \in Tasks |-> NoRun]
    /\ fs = [p \in {RelPath(rel) : rel \in EveryFile} |->
                IF p = RelPath(<<NameA>>) THEN 1 ELSE 0]
    /\ hist = [assigned |-> {}, reused |-> FALSE, all_ok |-> TRUE, fails |-> 0,
               idx_loaded |-> FALSE, meta_loaded |-> FALSE, balance |-> 0]

\* The rows are inserted into the new store by one call, then index_directory
\* runs over the project as it is now; calls may fail.
NextStale ==
    \/ Free(Client) /\ meta.next_key = 0 /\ \E rs \in StaleBatches : Insert(Client, rs)
    \/ Return(Client)
    \/ IndexWalk(Client)
    \/ RunStep(Client, Outcomes)
    \/ WriteStep(Client, Outcomes)
    \/ CountStep(Client)

SpecStale == InitStale /\ [][NextStale]_vars

\* ---- ClaudevilServer::search and ClaudevilServer::find_similar ----------------
\* The texts of the replies (server.rs:134, 289, 124, 130).
NoResultsText(tool) ==
    IF tool = "search"
    THEN "No results found. The index may still be building, or no matching code was found."
    ELSE "No similar code found. The index may still be building."
EmbeddingFailedText == "embedding failed"
SearchFailedText == "search failed"

\* A String from its characters.
RECURSIVE Str(_)
Str(cs) == IF cs = <<>> THEN "" ELSE Head(cs) \o Str(Tail(cs))

\* format_results(results, true): one "## path (kind name) [distance]" entry
\* per result (the lines and the content of a row are not in the model's rows).
RECURSIVE FormatResults(_)
FormatResults(results) ==
    IF results = <<>> THEN ""
    ELSE LET r == Head(results)
             symbol_info == IF r.symbol_kind # NoKind /\ r.symbol_name.some
                            THEN " (" \o r.symbol_kind \o " " \o Str(r.symbol_name.val) \o ")"
                            ELSE ""
         IN "## " \o r.file_path \o symbol_info \o " [" \o ToString(r.distance) \o "]\n"
               \o FormatResults(Tail(results))

\* CallToolResult::success(text) and Err(McpError::internal_error(text)).
Success(text) == [kind |-> "success", content |-> text]
InternalError(text) == [kind |-> "error", content |-> text]

\* The handler is called: limit = params.limit.unwrap_or(10), then
\* embedder.embed_one(query).await.
ToolCall(h, tool, q) ==
    /\ Free(h)
    /\ task' = [task EXCEPT ![h] = [IdleTask EXCEPT !.pc = "tool_embed", !.op = "tool",
                                                    !.tool = tool, !.q = q]]
    /\ UNCHANGED <<index, meta, disk_index, disk_meta, index_lock, meta_lock, run, fs, hist>>

\* embed_one has returned: its error is the reply; else store.search is called
\* with the vector, the limit and the language.
ToolEmbedded(h, fail) ==
    /\ task[h].pc = "tool_embed"
    /\ IF fail
       THEN /\ task' = [task EXCEPT ![h].pc = "replied", ![h].res = "err",
                                    ![h].resp = InternalError(EmbeddingFailedText)]
            /\ hist' = Failed(fail)
       ELSE /\ task' = [task EXCEPT ![h].pc = "srch_index", ![h].op = "search"]
            /\ UNCHANGED hist
    /\ UNCHANGED <<index, meta, disk_index, disk_meta, index_lock, meta_lock, run, fs>>

\* index.search or index.filtered_search returns an error inside store.search:
\* `?` returns it and drops the guards.
SearchFindErr(t) ==
    /\ task[t].pc = "srch_find"
    /\ DOMAIN meta.chunks # {}
    /\ hist.fails < MaxFails
    /\ ReturnErr(t)
    /\ hist' = Failed(TRUE)
    /\ UNCHANGED <<index, meta, disk_index, disk_meta, run, fs>>

\* Faulty variant of ToolReply: an empty result is answered with an error.
ToolReply_emptyIsError(h) ==
    /\ task[h].pc = "ret"
    /\ task[h].tool # "none"
    /\ task' = [task EXCEPT ![h].pc = "replied",
                            ![h].resp =
                                IF task[h].res = "err" \/ task[h].out = <<>>
                                THEN InternalError(SearchFailedText)
                                ELSE Success(FormatResults(Prefix(task[h].out, task[h].q.limit)))]
    /\ UNCHANGED <<index, meta, disk_index, disk_meta, index_lock, meta_lock, run, fs, hist>>

\* store.search has returned: its error is the reply; an empty result is
\* answered with the tool's "no results" text; else the results are formatted.
ToolReply(h) ==
    /\ task[h].pc = "ret"
    /\ task[h].tool # "none"
    /\ task' = [task EXCEPT ![h].pc = "replied",
                            ![h].resp =
                                IF task[h].res = "err"
                                THEN InternalError(SearchFailedText)
                                ELSE IF task[h].out = <<>>
                                THEN Success(NoResultsText(task[h].tool))
                                ELSE Success(FormatResults(Prefix(task[h].out, task[h].q.limit)))]
    /\ UNCHANGED <<index, meta, disk_index, disk_meta, index_lock, meta_lock, run, fs, hist>>

\* The reply has been sent; the server task takes the next request.
ToolDone(h) ==
    /\ task[h].pc = "replied"
    /\ task' = [task EXCEPT ![h] = IdleTask]
    /\ UNCHANGED <<index, meta, disk_index, disk_meta, index_lock, meta_lock, run, fs, hist>>

\* The server task answers search and find_similar requests; between them
\* rows are inserted and deleted (the index is being built); embed_one and the
\* library's search may fail.
NextTools ==
    \/ Free(Client) /\ \E rs \in SearchBatches : Insert(Client, rs)
    \/ \E p \in AllPaths : DeleteFile(Client, p)
    \/ Free(Client) /\ \E tool \in {"search", "find_similar"}, q \in SearchQueries :
                           ToolCall(Client, tool, q)
    \/ \E fail \in Outcomes : ToolEmbedded(Client, fail)
    \/ SearchStep(Client)
    \/ AcquireMetaRead(Client)
    \/ SearchFindErr(Client)
    \/ ToolReply(Client)
    \/ ToolDone(Client)
    \/ Return(Client)
    \/ WriteStep(Client, {FALSE})

SpecTools == Init /\ [][NextTools]_vars


\* ==== properties ============================================================
\* No writer is inside the body of insert or delete_file: the state a reader
\* (or a reopen) can observe.
Observable == meta_lock.writer = NoTask
Mutating == {"insert", "delete"}
WriterBody == {"ins_reserve", "ins_add", "del_scan", "del_remove", "persist_index", "persist_meta"}
ReaderBody == {"srch_find", "srch_map", "cnt_read", "find_read", "list_read"}
BothFiles == {"index", "meta"}

\* C1: in every observable store state, after any sequence of insert,
\* delete_file and reopen, the keys of the ANN index are the keys of the
\* metadata map.
C1_KeySetsAgree == Observable => index = DOMAIN meta.chunks

\* C2: a search running with an insert or delete_file never ends up holding
\* the index while waiting for the metadata that a writer holds while that
\* writer waits for the index: both calls can still complete.
C2_SearchAndWriterComplete ==
    ~ \E s \in Tasks, w \in Tasks :
          /\ s # w
          /\ task[s].pc = "srch_meta" /\ s \in index_lock.readers
          /\ task[w].pc \in {"ins_index", "del_index"} /\ meta_lock.writer = w

C4_KeysNeverReused == [][meta'.next_key >= meta.next_key /\ ~hist'.reused]_vars

\* C5: after only successful calls, what a reopen loads from the directory is
\* the store in memory: same rows, same next_key, and an index holding exactly
\* the rows' keys (so that search still finds every row).
C5_ReopenRoundTrip ==
    (hist.all_ok /\ Observable) =>
        /\ LoadMeta(disk_meta) = meta
        /\ LoadIndex(disk_index) = index
        /\ LoadIndex(disk_index) = DOMAIN LoadMeta(disk_meta).chunks

\* C5 witness: a store reopened from its files after successful inserts and a
\* successful delete, still holding rows.
C5_Witness ==
    /\ hist.all_ok /\ Quiet
    /\ hist.meta_loaded /\ hist.idx_loaded
    /\ DOMAIN meta.chunks # {}
    /\ meta.next_key > Cardinality(DOMAIN meta.chunks)
    /\ disk_meta.next_key = meta.next_key

\* C6: a returned insert or delete_file has written both files and reports
\* success, or has written neither (a failure, or a call with nothing to
\* write); never one file without the other.
C6_AtomicCommit ==
    \A t \in Tasks :
        (task[t].pc = "ret" /\ task[t].op \in Mutating) =>
            \/ task[t].res = "ok" /\ task[t].wrote \in {{}, BothFiles}
            \/ task[t].res = "err" /\ task[t].wrote = {}

\* C7: an opened store has loaded both files or neither.
C7_LoadedTogether == hist.idx_loaded = hist.meta_loaded

\* C8: a delete_file(p) that returns Ok leaves no row of p in index or
\* metadata, leaves every other row and next_key as they were, and, when no
\* row matched, leaves memory and both files as they were.
C8_DeleteFileExact ==
    [][\A t \in Tasks :
          (task[t].op = "delete" /\ task[t].pc # "ret"
              /\ task'[t].pc = "ret" /\ task'[t].res = "ok") =>
            LET before == task[t].entry
                p == task[t].path
                gone == KeysOfFile(before.meta.chunks, p)
            IN /\ KeysOfFile(meta'.chunks, p) = {}
               /\ DOMAIN meta'.chunks = (DOMAIN before.meta.chunks) \ gone
               /\ \A k \in DOMAIN meta'.chunks : meta'.chunks[k] = before.meta.chunks[k]
               /\ index' = before.index \ gone
               /\ meta'.next_key = before.meta.next_key
               /\ gone = {} => /\ disk_index' = before.disk_index
                               /\ disk_meta' = before.disk_meta
                               /\ task'[t].wrote = {}]_vars

\* C8 witness: a delete_file that removed rows has returned Ok and rows of
\* another file remain.
C8_Witness ==
    \E t \in Tasks :
        /\ task[t].pc = "ret" /\ task[t].op = "delete" /\ task[t].res = "ok"
        /\ KeysOfFile(task[t].entry.meta.chunks, task[t].path) # {}
        /\ DOMAIN meta.chunks # {}

\* C9: no two rows of the store share (file_path, chunk_id), whatever
\* index_directory runs have written it.
C9_UniqueFileChunk ==
    Observable =>
        \A j \in DOMAIN meta.chunks, k \in DOMAIN meta.chunks :
            meta.chunks[j] = meta.chunks[k] => j = k

\* C10: when a run's insert begins, and for as long as it lasts, delete_file
\* has returned Ok in this run for every file that has a row in the batch or
\* in the pending rows.
C10_DeleteBeforeInsert ==
    \A t \in Tasks :
        /\ \A i \in 1..Len(run[t].pending) : run[t].pending[i].file_path \in run[t].deleted
        /\ (run[t].pc = "flushing" /\ task[t].op = "insert") =>
              \A i \in 1..Len(run[t].batch) : run[t].batch[i].file_path \in run[t].deleted

\* C10 witness: a run is inside the insert of a batch holding rows of two
\* files.
C10_Witness ==
    \E t \in Tasks :
        /\ run[t].pc = "flushing" /\ task[t].pc = "ins_add"
        /\ \E i, j \in 1..Len(run[t].batch) :
              run[t].batch[i].file_path # run[t].batch[j].file_path

\* C11: when index_directory has run twice in sequence over unchanged files,
\* both runs returning Ok and no call having failed, list_files() and
\* chunk_count() give after the second run what they gave after the first.
C11_RerunIdempotent ==
    \A t \in Tasks :
        (run[t].pc = "done" /\ run[t].res = "ok" /\ run[t].prev.valid /\ hist.all_ok) =>
            /\ ListFilesOf(meta.chunks, NoLang) = run[t].prev.files
            /\ Cardinality(DOMAIN meta.chunks) = run[t].prev.count

\* C11 witness: a second run has returned Ok over a store that the first run
\* had filled.
C11_Witness ==
    \E t \in Tasks :
        /\ run[t].pc = "done" /\ run[t].res = "ok" /\ run[t].prev.valid /\ hist.all_ok
        /\ run[t].prev.count > 0
        /\ run[t].deleted # {}

\* C12: a file whose read or whose chunking failed in the current run has no
\* row in the store (runs are sequential here, so any row it has is from a
\* previous run).
C12_FailedFileHasNoRows ==
    \A t \in Tasks : \A p \in run[t].failed : KeysOfFile(meta.chunks, p) = {}

\* A path lies under a directory: the directory's components begin it.
Under(p, dir) == Len(p) >= Len(dir) /\ \A i \in 1..Len(dir) : p[i] = dir[i]

\* C13: a read_file request gets a file's text only if the canonical form of
\* root.join(path) exists and lies under the root, and the text is that of
\* the file there; in every other case it gets an error and no text.
C13_ReadFileUnderRoot ==
    \A t \in Tasks :
        (task[t].op = "read_file" /\ task[t].pc = "ret") =>
            LET canonical == Canonicalize(<<>>, Join(Root, task[t].req), MaxLinks)
            IN IF canonical.ok /\ Under(canonical.path, Root)
               THEN task[t].resp.kind = "content" => task[t].resp.content = Tree[canonical.path].content
               ELSE task[t].resp = ErrorResp

\* C13 witness: a request through a symlink that leaves the root, or through
\* "..", has been rejected, and so has one that does not resolve.
C13_Witness ==
    \E t \in Tasks :
        /\ task[t].op = "read_file" /\ task[t].pc = "ret" /\ task[t].resp = ErrorResp
        /\ task[t].req \in {[abs |-> FALSE, comps |-> <<"out">>],
                             [abs |-> FALSE, comps |-> <<"..", "o", "s.txt">>]}

\* C14: every result of a search is built from a key that the metadata map
\* holds when the search returns and carries that row's fields, so a file
\* whose rows delete_file has removed is in no result; a search of an empty
\* store returns nothing.
C14_SearchReturnsStoredRows ==
    \A t \in Tasks :
        (task[t].op = "search" /\ task[t].pc = "ret") =>
            /\ \A i \in 1..Len(task[t].out) :
                  LET r == task[t].out[i]
                  IN /\ r.key \in DOMAIN meta.chunks
                     /\ r.file_path = meta.chunks[r.key].file_path
                     /\ r.symbol_name = meta.chunks[r.key].symbol_name
                     /\ r.symbol_kind = meta.chunks[r.key].symbol_kind
            /\ DOMAIN meta.chunks = {} => task[t].out = <<>>

\* C14 witness: a search has returned a row although the index gave it a key
\* without metadata as well.
C14_Witness ==
    \E t \in Tasks :
        /\ task[t].op = "search" /\ task[t].pc = "ret"
        /\ task[t].out # <<>>
        /\ \E i \in 1..Len(task[t].hits) : task[t].hits[i] \notin DOMAIN meta.chunks

\* The rows a search with language filter lang can return.
Matching(chunks, lang) == {k \in DOMAIN chunks : lang = NoLang \/ chunks[k].language = lang}

\* C15: a search returns at most limit results, with a language filter only
\* rows of that language, and exactly limit results when at least limit rows
\* match.
C15_SearchLimit ==
    \A t \in Tasks :
        (task[t].op = "search" /\ task[t].pc = "ret") =>
            LET q == task[t].q
            IN /\ Len(task[t].out) <= q.limit
               /\ \A i \in 1..Len(task[t].out) : task[t].out[i].key \in Matching(meta.chunks, q.lang)
               /\ Cardinality(Matching(meta.chunks, q.lang)) >= q.limit => Len(task[t].out) = q.limit

\* Two letters that differ at most in case, and a pattern occurring in a name
\* when case is ignored.
SameLetter(a, b) == a = b \/ {a, b} = {"F", "f"} \/ {a, b} = {"O", "o"}
OccursIgnoringCase(name, pat) ==
    \E off \in 0..(Len(name) - Len(pat)) : \A i \in 1..Len(pat) : SameLetter(name[off + i], pat[i])
FindMatching(chunks, q) ==
    {k \in DOMAIN chunks :
        /\ chunks[k].symbol_name.some
        /\ OccursIgnoringCase(chunks[k].symbol_name.val, q.pattern)
        /\ (q.kind # NoKind => chunks[k].symbol_kind = q.kind)}

\* C16: find_by_symbol returns at most limit rows; each is a stored row that
\* has a symbol name in which the pattern occurs when case is ignored and, if
\* a kind is given, has that kind; each has distance 0; when no more than
\* limit rows match, every matching row is returned.
C16_FindBySymbol ==
    \A t \in Tasks :
        (task[t].op = "find" /\ task[t].pc = "ret") =>
            LET q == task[t].q
                out == task[t].out
                matching == FindMatching(meta.chunks, q)
            IN /\ Len(out) <= q.limit
               /\ \A i \in 1..Len(out) :
                     /\ out[i].key \in matching
                     /\ out[i].symbol_name = meta.chunks[out[i].key].symbol_name
                     /\ out[i].symbol_name.some
                     /\ out[i].distance = 0
               /\ Cardinality(matching) <= q.limit => {out[i].key : i \in 1..Len(out)} = matching

\* C16 witness: a call with pattern "FO" has returned the row named "foo"
\* from a store that also holds a row without a name.
C16_Witness ==
    \E t \in Tasks :
        /\ task[t].op = "find" /\ task[t].pc = "ret"
        /\ task[t].q.pattern = <<"F", "O">>
        /\ \E i \in 1..Len(task[t].out) : task[t].out[i].symbol_name = Some(<<"f", "o", "o">>)
        /\ \E k \in DOMAIN meta.chunks : ~meta.chunks[k].symbol_name.some

\* The position of a path in the ascending order of the paths.
PathIndex(p) == CHOOSE i \in 1..Len(PathOrder) : PathOrder[i] = p

\* C17: list_files returns the file paths of the stored rows (of the rows of
\* the language when a filter is given), no other path, in strictly
\* ascending order, hence each path once.
C17_ListFiles ==
    \A t \in Tasks :
        (task[t].op = "list" /\ task[t].pc = "ret") =>
            LET files == task[t].files
            IN /\ {files[i] : i \in 1..Len(files)} =
                     {meta.chunks[k].file_path : k \in Matching(meta.chunks, task[t].q.lang)}
               /\ \A i \in 1..Len(files) : \A j \in 1..Len(files) :
                     i < j => PathIndex(files[i]) < PathIndex(files[j])

\* C17 witness: list_files("go") has returned two paths from a store that
\* also holds a row of another language.
C17_Witness ==
    \E t \in Tasks :
        /\ task[t].op = "list" /\ task[t].pc = "ret"
        /\ task[t].q.lang = "go" /\ Len(task[t].files) = 2
        /\ \E k \in DOMAIN meta.chunks : meta.chunks[k].language = "rust"

\* C18: what chunk_count() returns is the number of rows in the store, and
\* that is the number of rows of the inserts that returned Ok less the number
\* of rows delete_file calls removed (hist.balance).
C18_CountIsInsertedMinusDeleted ==
    \A t \in Tasks :
        (task[t].op = "count" /\ task[t].pc = "ret") =>
            /\ task[t].count = Cardinality(DOMAIN meta.chunks)
            /\ task[t].count = hist.balance

\* C19: a call of insert with no rows returns Ok at once and changes neither
\* the store in memory nor the two files; a call with n rows that returns Ok
\* has given its rows the n keys from next_key on, none of which the store
\* held, has advanced next_key by n, and has left both files equal to memory.
C19_InsertEffect ==
    [][\A t \in Tasks :
          /\ (task[t].pc = "idle" /\ task'[t].op = "insert" /\ task'[t].n = 0) =>
                /\ task'[t].pc = "ret" /\ task'[t].res = "ok"
                /\ UNCHANGED <<index, meta, disk_index, disk_meta>>
          /\ (task[t].op = "insert" /\ task[t].n > 0 /\ task[t].pc # "ret"
                 /\ task'[t].pc = "ret" /\ task'[t].res = "ok") =>
                LET e == task[t].entry
                    fresh == e.meta.next_key..(e.meta.next_key + task[t].n - 1)
                IN /\ fresh \cap (e.index \cup DOMAIN e.meta.chunks) = {}
                   /\ DOMAIN meta'.chunks = DOMAIN e.meta.chunks \cup fresh
                   /\ index' = e.index \cup fresh
                   /\ meta'.next_key = e.meta.next_key + task[t].n
                   /\ disk_index' = [exists |-> TRUE, keys |-> index']
                   /\ disk_meta' = [exists |-> TRUE, next_key |-> meta'.next_key,
                                    chunks |-> meta'.chunks]
      ]_vars

\* C19 witness: a call with two rows has returned Ok on a store that held a
\* row already.
C19_Witness ==
    \E t \in Tasks :
        /\ task[t].op = "insert" /\ task[t].pc = "ret" /\ task[t].res = "ok"
        /\ task[t].n = 2
        /\ DOMAIN task[t].entry.meta.chunks # {}

\* C20: the step in which the reindex handler is entered is the step in which
\* its response is ready: the run it has spawned is at its start, and the
\* handler does not wait for it.  (That other requests are served during the
\* run is the witness.)
C20_ReindexRepliesAtOnce ==
    [][\A h \in Tasks :
          (task[h].op # "reindex" /\ task'[h].op = "reindex") =>
              /\ task'[h].pc = "ret" /\ task'[h].res = "ok"
              /\ \E bg \in Tasks \ {h} :
                    /\ run'[bg].by = "reindex" /\ run'[bg].pc = "walk"
                    /\ run'[bg].todo # <<>>
                    /\ run[bg].pc # "walk"
      ]_vars

\* C20 witness: a run spawned by reindex is still in progress, and the server
\* task, which called reindex before, has since called search and got rows.
C20_Witness ==
    \E h \in Tasks, bg \in Tasks :
        /\ run[bg].by = "reindex" /\ run[bg].pc \in {"walk", "deleting", "flush", "flushing"}
        /\ task[h].op = "search" /\ task[h].pc = "ret" /\ task[h].res = "ok"
        /\ task[h].out # <<>>

\* A path with a component whose name begins with '.'.
HasHiddenComponent(path) == \E i \in 1..Len(path) : Len(path[i]) > 0 /\ path[i][1] = Dot

\* C21: no row of the store has a file_path with a component that begins with
\* '.', whatever the run has walked (the root's own name does not count: it is
\* not part of the relative path).
C21_NoHiddenRows ==
    \A k \in DOMAIN meta.chunks : ~HasHiddenComponent(meta.chunks[k].file_path)


\* The chunk ids of the rows of file p in the store, as a bag would count them:
\* the file is fully stored when each of its n chunk ids occurs on one row.
StoredOnce(p, n) ==
    /\ \A i \in 0..(n - 1) :
          Cardinality({k \in DOMAIN meta.chunks :
                          /\ meta.chunks[k].file_path = p
                          /\ meta.chunks[k].chunk_id = i}) = 1
    /\ \A k \in DOMAIN meta.chunks :
          (meta.chunks[k].file_path = p) => (meta.chunks[k].chunk_id \in 0..(n - 1))

\* The rows a run holds outside the store: pending_rows and the batch it has
\* handed to store.insert.
RowsOfRun(t) ==
    {run[t].pending[i] : i \in 1..Len(run[t].pending)} \cup
    {run[t].batch[i] : i \in 1..Len(run[t].batch)}

\* A run in which the only errors so far were read or chunking errors of files.
OnlyFileFailures(t) ==
    /\ run[t].failed # {}
    /\ hist.fails = Cardinality(run[t].failed)

\* C22: a file whose read or chunking failed never has a row among the rows the
\* run collects or inserts; and a run in which nothing else failed returns Ok
\* with every other supported file stored in full.
C22_FileFailureDoesNotAbort ==
    \A t \in Tasks :
        /\ \A r \in RowsOfRun(t) : r.file_path \notin run[t].failed
        /\ (OnlyFileFailures(t) /\ run[t].pc = "done") =>
              /\ run[t].res = "ok"
              /\ \A p \in Paths \ run[t].failed : StoredOnce(p, fs[p])

\* A run has returned Ok although a file with chunks failed, and another file
\* with chunks is stored.
C22_Witness ==
    \E t \in Tasks :
        /\ OnlyFileFailures(t)
        /\ run[t].pc = "done"
        /\ run[t].res = "ok"
        /\ \E p \in run[t].failed : fs[p] > 0
        /\ \E p \in Paths \ run[t].failed : fs[p] > 0 /\ StoredOnce(p, fs[p])


\* C23: whenever the store can be read (no writer holds the metadata lock),
\* every key below the key of a stored row has itself been the key of a stored
\* row at some earlier moment.
C23_KeysWithoutGaps ==
    (meta_lock.writer = NoTask) =>
        \A k \in DOMAIN meta.chunks : \A j \in 0..(k - 1) : j \in hist.assigned


\* C24: whenever the store can be read (no writer holds a lock), the keys of the
\* index and the rows of the metadata in memory are those a reopen would load
\* from the two files.
C24_MemoryIsPersisted ==
    Observable =>
        /\ index = LoadIndex(disk_index)
        /\ meta.chunks = LoadMeta(disk_meta).chunks


RECURSIVE SumOver(_, _)
SumOver(f, S) == IF S = {} THEN 0 ELSE LET x == CHOOSE y \in S : TRUE
                                       IN f[x] + SumOver(f, S \ {x})

\* What one uninterrupted run over the files leaves: a path for each file with
\* chunks, in ascending order, and one row per chunk.
FilesOfTree == SelectSeq(PathOrder, LAMBDA p : p \in Paths /\ fs[p] > 0)
ChunksOfTree == SumOver(fs, Paths)

\* C25: when a run that follows a cancelled run has got the result of its
\* chunk_count(), that count and list_files() are those of one uninterrupted
\* run over the same files.
C25_RunAfterCancelled ==
    \A t \in Tasks :
        (run[t].pc = "counting" /\ task[t].pc = "ret" /\ run[t].prev.res = "cancelled") =>
            /\ task[t].count = ChunksOfTree
            /\ ListFilesOf(meta.chunks, NoLang) = FilesOfTree

\* A run completes after a run that was cancelled when rows it had deleted were
\* not yet inserted again: the store then held fewer rows than keys had been
\* assigned less the rows of one run.
C25_Witness ==
    \E t \in Tasks :
        /\ run[t].pc = "counting" /\ task[t].pc = "ret"
        /\ run[t].prev.res = "cancelled"
        /\ ChunksOfTree > 0
        /\ run[t].prev.count < ChunksOfTree
        /\ Cardinality(hist.assigned) > run[t].prev.count + ChunksOfTree


\* C26: when the run started after a crash between the two writes of
\* persist_locked has ended, the index and the metadata hold the same keys and
\* the rows are those of the files: one row per chunk of each file.
C26_RecoveredAfterCrash ==
    \A t \in Tasks :
        (run[t].pc = "done" /\ run[t].prev.res = "crashed") =>
            /\ index = DOMAIN meta.chunks
            /\ \A p \in Paths : StoredOnce(p, fs[p])


\* The vector of one text embedded on its own, without padding.
VectorOf(text) ==
    LET enc == Encode(text)
        pooled == MeanPool(BertForward(enc.ids), enc.attention_mask)
        len == Sqrt(SumSeq([d \in 1..EMBEDDING_DIM |-> pooled[d] * pooled[d]]))
    IN [d \in 1..EMBEDDING_DIM |-> IF len = 0 THEN NaN ELSE (pooled[d] * Scale) \div len]

\* C27: embed_batch that returns Ok gives as many vectors as texts, the i-th
\* being the vector of the i-th text and of length EMBEDDING_DIM; for no text it
\* returns no vector and embed_batch_sync has not run; embed_one(t) returns the
\* one vector of embed_batch([t]).
C27_OneVectorPerText ==
    \A t \in Tasks :
        (task[t].pc = "ret" /\ task[t].res = "ok") =>
            /\ (task[t].op = "embed_batch") =>
                  /\ Len(task[t].resp) = Len(task[t].req)
                  /\ \A i \in 1..Len(task[t].req) :
                        /\ Len(task[t].resp[i]) = EMBEDDING_DIM
                        /\ task[t].resp[i] = VectorOf(task[t].req[i])
                  /\ (task[t].req = <<>>) => (task[t].resp = <<>> /\ task[t].n = 0)
            /\ (task[t].op = "embed_one") =>
                  /\ Len(EmbedBatchSync(task[t].req)) = 1
                  /\ task[t].resp = EmbedBatchSync(task[t].req)[1]

\* embed_batch has returned the vectors of two texts that differ, the first
\* padded to the length of the second.
C27_Witness ==
    \E t \in Tasks :
        /\ task[t].pc = "ret" /\ task[t].res = "ok" /\ task[t].op = "embed_batch"
        /\ Len(task[t].req) = 2
        /\ Len(task[t].req[1]) < Len(task[t].req[2])
        /\ task[t].resp[1] # task[t].resp[2]


\* The vectors a call has returned.
Returned(t) ==
    IF task[t].pc = "ret" /\ task[t].res = "ok" /\ task[t].op = "embed_batch"
    THEN {task[t].resp[i] : i \in 1..Len(task[t].resp)}
    ELSE IF task[t].pc = "ret" /\ task[t].res = "ok" /\ task[t].op = "embed_one"
    THEN {task[t].resp}
    ELSE {}

\* The square of the L2 norm of a vector of numbers, in units of Scale * Scale.
SquaredNorm(v) == SumSeq([d \in 1..Len(v) |-> v[d] * v[d]])

\* The norm is within 0.01 of 1: its square is between 0.99 * 0.99 and
\* 1.01 * 1.01.
NearOne(sq) ==
    /\ sq >= ((99 * Scale) \div 100) * ((99 * Scale) \div 100)
    /\ sq <= ((101 * Scale) \div 100) * ((101 * Scale) \div 100)

\* C28: every vector embed_batch or embed_one returns has no NaN component and
\* an L2 norm within 0.01 of 1.
C28_Normalized ==
    \A t \in Tasks : \A v \in Returned(t) :
        /\ \A d \in 1..Len(v) : v[d] # NaN
        /\ NearOne(SquaredNorm(v))

\* embed_one has returned the vector of a text whose pooled vector, before the
\* normalization, had a norm that is not within 0.01 of 1.
C28_Witness ==
    \E t \in Tasks :
        /\ task[t].pc = "ret" /\ task[t].res = "ok" /\ task[t].op = "embed_one"
        /\ LET enc == Encode(task[t].req[1])
           IN ~NearOne(SquaredNorm(MeanPool(BertForward(enc.ids), enc.attention_mask)))


\* The names for which default_chunk_on has node kinds.
BuiltinNames == {"go", "rust", "python"}

\* C29: for a config file that was read and parsed (or is absent), load
\* returns a configuration error exactly when some language, built-in or of
\* the file, has no chunk_on and a name without built-in defaults; otherwise
\* the languages are the built-in ones and those of the file, an entry of the
\* file replaces the built-in entry of its name, chunk_on given in the file is
\* kept, and chunk_on not given is the built-in default of the name.
C29_ConfigLoad ==
    \A t \in Tasks :
        (task[t].pc = "ret" /\ task[t].op = "load" /\ task[t].req.kind \in {"absent", "toml"}) =>
            LET user == task[t].req.lang
                out == task[t].resp
            IN IF \E name \in DOMAIN user \ BuiltinNames : ~user[name].chunk_on.some
               THEN out.kind = "Error::Config"
               ELSE /\ out.kind = "Ok"
                    /\ DOMAIN out.lang = BuiltinNames \cup DOMAIN user
                    /\ \A name \in DOMAIN out.lang :
                          /\ out.lang[name].chunk_on.some
                          /\ (name \in DOMAIN user) =>
                                /\ out.lang[name].extensions = user[name].extensions
                                /\ out.lang[name].grammar = user[name].grammar
                                /\ (user[name].chunk_on.some) =>
                                      (out.lang[name].chunk_on = user[name].chunk_on)
                          /\ (name \notin DOMAIN user \/ ~user[name].chunk_on.some) =>
                                (out.lang[name].chunk_on = Some(DefaultChunkOn(name)))
                          /\ (name \notin DOMAIN user) =>
                                (out.lang[name].extensions = DefaultConfig[name].extensions)

\* load has returned Ok for a file that replaces the entry of go without
\* giving chunk_on and adds a language of its own with chunk_on.
C29_Witness ==
    \E t \in Tasks :
        /\ task[t].pc = "ret" /\ task[t].op = "load" /\ task[t].res = "ok"
        /\ task[t].req.kind = "toml"
        /\ "go" \in DOMAIN task[t].req.lang
        /\ ~task[t].req.lang["go"].chunk_on.some
        /\ "zig" \in DOMAIN task[t].req.lang
        /\ task[t].resp.lang["go"].extensions = <<"x">>
        /\ Len(task[t].resp.lang["go"].chunk_on.val) = 5


\* The number of lines of a text: its line feeds, and one more when characters
\* follow the last of them.
RECURSIVE CountNL(_)
CountNL(text) ==
    IF text = <<>> THEN 0 ELSE (IF Head(text) = NL THEN 1 ELSE 0) + CountNL(Tail(text))
LineCount(text) ==
    CountNL(text) + (IF text # <<>> /\ text[Len(text)] # NL THEN 1 ELSE 0)

\* C30: every chunk chunk_file returns for a text has
\* 1 <= start_line <= end_line <= the number of lines of the text.
C30_LinesInRange ==
    \A t \in Tasks :
        (task[t].pc = "ret" /\ task[t].op = "chunk_file") =>
            \A n \in 1..Len(task[t].resp) :
                /\ 1 <= task[t].resp[n].start_line
                /\ task[t].resp[n].start_line <= task[t].resp[n].end_line
                /\ task[t].resp[n].end_line <= LineCount(task[t].req.source)

\* chunk_file has returned a chunk that begins with a comment line and runs to
\* the last line of a text in which its block is never closed.
C30_Witness ==
    \E t \in Tasks :
        /\ task[t].pc = "ret" /\ task[t].op = "chunk_file"
        /\ LineCount(task[t].req.source) = MaxLines
        /\ Lines(task[t].req.source)[1] = LineComment
        /\ ~ContainsChar(task[t].req.source, "}")
        /\ \E n \in 1..Len(task[t].resp) :
              /\ task[t].resp[n].symbol_kind = "func"
              /\ task[t].resp[n].start_line = 1
              /\ task[t].resp[n].end_line = MaxLines

\* ---- C31 ---------------------------------------------------------------------
\* C31: when store.search gives a search or find_similar handler an empty
\* result (empty store, rows still being inserted, nothing matching the
\* language or the limit), the reply is a success carrying the tool's "no
\* results" text, not an error.
C31_EmptyResultIsSuccess ==
    \A t \in Tasks :
        (task[t].pc = "replied" /\ task[t].res = "ok" /\ task[t].out = <<>>)
            => /\ task[t].resp.kind = "success"
               /\ \/ task[t].tool = "search" /\ task[t].resp.content =
                        "No results found. The index may still be building, or no matching code was found."
                  \/ task[t].tool = "find_similar" /\ task[t].resp.content =
                        "No similar code found. The index may still be building."

\* find_similar has replied to a query that matched none of the rows in a
\* store that holds rows.
C31_Witness ==
    \E t \in Tasks :
        /\ task[t].pc = "replied" /\ task[t].tool = "find_similar"
        /\ task[t].res = "ok" /\ task[t].out = <<>>
        /\ task[t].q.limit > 0
        /\ DOMAIN meta.chunks # {}
        /\ task[t].resp.kind = "success"

\* ---- C32 ---------------------------------------------------------------------
\* The rows of file p are those of a content of n chunks: one row for each
\* chunk_id 0..n-1 and no other row, the keys ascending with the chunk_id.
RowsAreChunks(chunks, p, n) ==
    LET keys == {k \in DOMAIN chunks : chunks[k].file_path = p}
    IN /\ Cardinality(keys) = n
       /\ {chunks[k].chunk_id : k \in keys} = 0..(n - 1)
       /\ \A j, k \in keys : (j < k) => (chunks[j].chunk_id < chunks[k].chunk_id)

\* C32: when index_directory returns Ok (no other writer being at work), the
\* rows of every supported file are the chunks of its current content, with
\* chunk_id 0..n-1 in emission order, and no row of its previous content is left.
C32_RowsAreCurrentContent ==
    [][\A t \in Tasks :
          (run[t].pc = "counting" /\ run'[t].pc = "done" /\ run'[t].res = "ok") =>
              \A p \in Paths : RowsAreChunks(meta'.chunks, p, fs'[p])]_vars

\* ---- C33 ---------------------------------------------------------------------
\* C33: no batch that a run passes to embed_batch (the rows flush_batch takes)
\* or to store.insert has more than BATCH_SIZE rows; pending_rows is flushed
\* when it reaches BATCH_SIZE, so the walk goes on with fewer; and it is
\* empty when the run has returned Ok.
C33_BatchWithinSize ==
    \A t \in Tasks :
        /\ (run[t].pc = "flush") => (Len(run[t].pending) <= BATCH_SIZE)
        /\ (run[t].pc = "flushing") => (Len(run[t].batch) <= BATCH_SIZE)
        /\ (run[t].pc = "walk") => (Len(run[t].pending) < BATCH_SIZE)
        /\ (run[t].pc = "done" /\ run[t].res = "ok") => (run[t].pending = <<>>)

\* ---- C34 ---------------------------------------------------------------------
\* The name ends with '.' followed by the letters of ext.
EndsWithExt(name, ext) ==
    /\ Len(name) > Len(ext) + 1
    /\ name[Len(name) - Len(ext)] = Dot
    /\ SubSeq(name, Len(name) - Len(ext) + 1, Len(name)) = ext

\* The paths (as the store would hold them) of the project's files whose name
\* ends with none of the extensions of default_config.
UnsupportedPaths ==
    {RelPath(rel) : rel \in {f \in EveryFile :
        \A ext \in {<<"g", "o">>, <<"r", "s">>, <<"p", "y">>} : ~EndsWithExt(f[Len(f)], ext)}}

\* C34: a run has no row of a file without extension or with an extension of
\* no language among the rows it collects or inserts, no such row is in the
\* store it fills, and it never calls delete_file with such a file's path.
C34_UnsupportedFilesUntouched ==
    /\ \A k \in DOMAIN meta.chunks : meta.chunks[k].file_path \notin UnsupportedPaths
    /\ \A t \in Tasks :
          /\ \A r \in RowsOfRun(t) : r.file_path \notin UnsupportedPaths
          /\ (task[t].op = "delete") => (task[t].path \notin UnsupportedPaths)
          /\ run[t].deleted \cap UnsupportedPaths = {}

\* A run over the project, which holds a file without extension and a .txt
\* file, has returned Ok and has stored a.go.
C34_Witness ==
    /\ RelPath(<<NameN>>) \in UnsupportedPaths
    /\ RelPath(<<NameT>>) \in UnsupportedPaths
    /\ \E t \in Tasks :
          /\ run[t].pc = "done" /\ run[t].res = "ok"
          /\ RelPath(<<NameA>>) \in run[t].deleted
          /\ \E k \in DOMAIN meta.chunks : meta.chunks[k].file_path = RelPath(<<NameA>>)

\* ---- C35 ---------------------------------------------------------------------
\* The word a declaration of the kind begins with.
KeywordOf(kind) ==
    CASE kind = "package" -> <<"p", "a", "c", "k", "a", "g", "e">>
      [] kind = "import" -> <<"i", "m", "p", "o", "r", "t">>
      [] kind = "func" -> <<"f", "u", "n", "c">>
      [] kind = "type" -> <<"t", "y", "p", "e">>
      [] kind = "const" -> <<"c", "o", "n", "s", "t">>
      [] kind = "var" -> <<"v", "a", "r">>

\* The text of the line begins, after its indentation, with the word.
BeginsWith(line, word) ==
    \E k \in 0..Len(line) :
        /\ \A j \in 1..k : line[j] \in {" ", "\t"}
        /\ Len(line) >= k + Len(word)
        /\ SubSeq(line, k + 1, k + Len(word)) = word

\* C35: start_line of a chunk is the line (counted from 1) on which its
\* declaration begins, also when comment lines before the declaration are part
\* of its content; end_line is not before it.
C35_StartLineIsDeclaration ==
    \A t \in Tasks :
        (task[t].pc = "ret" /\ task[t].op = "chunk_file") =>
            \A n \in 1..Len(task[t].resp) :
                LET c == task[t].resp[n]
                    ls == Lines(task[t].req.source)
                IN /\ c.start_line \in 1..Len(ls)
                   /\ BeginsWith(ls[c.start_line], KeywordOf(c.symbol_kind))
                   /\ c.start_line <= c.end_line

\* ---- C36 ---------------------------------------------------------------------
\* C36: chunk_file called with a language for which no grammar is loaded (any
\* language but Go here) returns an error and no sequence of chunks.
C36_UnknownLanguageFails ==
    \A t \in Tasks :
        (task[t].pc = "ret" /\ task[t].op = "chunk_file" /\ task[t].req.language # "go") =>
            task[t].res = "err"

\* ---- C37 ---------------------------------------------------------------------
\* C37: chunk_file returns for every text (empty, comments only, closers
\* without opener, blocks and parentheses never closed) without a panic, and
\* each chunk it returns begins after the line on which the chunk before it
\* ends.
C37_ReturnsOrderedChunks ==
    \A t \in Tasks :
        (task[t].pc = "ret" /\ task[t].op = "chunk_file") =>
            /\ task[t].res = "ok"
            /\ \A n \in 1..(Len(task[t].resp) - 1) :
                  task[t].resp[n].end_line < task[t].resp[n + 1].start_line

\* chunk_file has returned two chunks for a text that ends inside a block it
\* never closes, the second chunk running to the last line.
C37_Witness ==
    \E t \in Tasks :
        /\ task[t].pc = "ret" /\ task[t].op = "chunk_file" /\ task[t].res = "ok"
        /\ \E k \in 1..Len(task[t].req.source) : task[t].req.source[k] = "{"
        /\ \A k \in 1..Len(task[t].req.source) : task[t].req.source[k] # "}"
        /\ Len(task[t].resp) = 2
        /\ task[t].resp[1].end_line < task[t].resp[2].start_line
        /\ task[t].resp[2].start_line < task[t].resp[2].end_line

\* ---- C38 ---------------------------------------------------------------------
\* The chunk ids on the rows of file p among the rows rs (a sequence).
IdsIn(rs, p) == {rs[i].chunk_id : i \in {j \in 1..Len(rs) : rs[j].file_path = p}}

\* The keys of the rows of file p that a view of the metadata holds, those the
\* run of task t has inserted (keys from the next_key it began at) and those
\* from before.
NewKeys(chunks, t, p) ==
    {k \in DOMAIN chunks : chunks[k].file_path = p /\ k >= run[t].prev.next_key}
OldKeys(chunks, t, p) ==
    {k \in DOMAIN chunks : chunks[k].file_path = p /\ k < run[t].prev.next_key}

\* C38: in a run, the rows of a file are in one batch whole (pending_rows and
\* the batch passed to store.insert hold none or all of its chunks), and a
\* task that reads the store while the run is at work finds none or all of the
\* rows the run inserts for the file, and none of them beside rows of the file
\* from before the run.
C38_FileRowsInOneInsert ==
    \A t \in Tasks : \A p \in Paths :
        (run[t].pc \notin {"off", "done"}) =>
            /\ IdsIn(run[t].pending, p) \in {{}, 0..(fs[p] - 1)}
            /\ IdsIn(run[t].batch, p) \in {{}, 0..(fs[p] - 1)}
            /\ \A r \in Tasks \ {t} :
                  (task[r].pc = "cnt_read") =>
                      LET new == NewKeys(task[r].view.chunks, t, p)
                      IN /\ \/ new = {}
                            \/ /\ Cardinality(new) = fs[p]
                               /\ {task[r].view.chunks[k].chunk_id : k \in new} = 0..(fs[p] - 1)
                         /\ new = {} \/ OldKeys(task[r].view.chunks, t, p) = {}

\* ---- C39 ---------------------------------------------------------------------
\* The paths of rows that the walk of the project does not reach: g.go is not
\* in the project, .h/s.go lies in a hidden directory, t.txt has an extension
\* of no language.
UnvisitedPaths ==
    {<<<<"g", ".", "g", "o">>>>, <<<<".", "h">>, <<"s", ".", "g", "o">>>>,
     <<<<"t", ".", "t", "x", "t">>>>}

\* C39: no step of a run removes or changes a row whose file_path is the path
\* of a file that is gone, hidden or of an unsupported extension: the row and
\* its key in the index are kept as they are.
C39_UnvisitedRowsKept ==
    [][\A t \in Tasks :
          (run[t].pc \notin {"off", "done"}) =>
              \A k \in DOMAIN meta.chunks :
                  (meta.chunks[k].file_path \in UnvisitedPaths) =>
                      /\ k \in DOMAIN meta'.chunks
                      /\ meta'.chunks[k] = meta.chunks[k]
                      /\ (k \in index) => (k \in index')]_vars

\* A re-index has returned Ok: it has replaced the row of a.go by a new one,
\* and a row of a path it does not reach is still there.
C39_Witness ==
    \E t \in Tasks :
        /\ run[t].pc = "done" /\ run[t].res = "ok"
        /\ <<<<"a", ".", "g", "o">>>> \in run[t].deleted
        /\ \E k \in DOMAIN meta.chunks :
              /\ meta.chunks[k].file_path = <<<<"a", ".", "g", "o">>>>
              /\ \E j \in hist.assigned \ DOMAIN meta.chunks : j < k
        /\ \E k \in DOMAIN meta.chunks : meta.chunks[k].file_path \in UnvisitedPaths

\* ---- C40 ---------------------------------------------------------------------
\* The batch whose flush has failed when a run ends with an error: the rows
\* flush_batch took when embed_batch failed, the rows passed to store.insert
\* when insert failed.
FailedBatch(t) == IF run[t].pc = "flush" THEN run[t].pending ELSE run[t].batch

\* C40: when embed_batch or store.insert fails in flush_batch, the run returns
\* the error at once: the files left in the walk are not processed; no row of
\* the failed batch has been inserted by the run; and the files of the batch
\* had their earlier rows deleted by the run.
C40_FailedBatchNotInserted ==
    [][\A t \in Tasks :
          (run[t].pc \in {"flush", "flushing"} /\ run'[t].pc = "done" /\ run'[t].res = "err") =>
              /\ run'[t].todo = run[t].todo
              /\ \A i \in 1..Len(FailedBatch(t)) :
                    /\ FailedBatch(t)[i].file_path \in run[t].deleted
                    /\ \A k \in DOMAIN meta'.chunks :
                          (k >= run[t].prev.next_key) => (meta'.chunks[k] # FailedBatch(t)[i])]_vars
====
